---- MODULE Spec2Model ----
(***************************************************************************)
(* Request-handler resolution core of Mock Service Worker: the ordered     *)
(* handler list of setupServer / setupWorker, its mutation calls (use,     *)
(* restoreHandlers, resetHandlers), the resolution of intercepted requests *)
(* against it (listen), one-shot handlers and resolver faults.             *)
(***************************************************************************)
EXTENDS Integers, Sequences, FiniteSets, Bags, TLC

\* ------------------------------------------------------------------ bounds
MaxList == 3       \* longest handler list the model lets use() build
MaxInFlight == 2   \* most resolutions suspended at the same time
MaxCompose == 3    \* most transformers one response(...) call is given
MaxLogged == 2     \* most warnings the model lets the log of a handler print
MaxListeners == 4  \* longest list of listeners the model lets the module keep
MaxOnce == 1       \* once() calls the model lets the page make

\* ------------------------------------------------------------- vocabulary
NoHandler == "no-handler"
Undefined == [undefined |-> TRUE]
NoResponse == [absent |-> TRUE]
NoRequest == [absent |-> TRUE]

Range(s) == {s[i] : i \in 1..Len(s)}

EmptyHeaders == [n \in {} |-> ""]

\* ------------------------------------------------- declared request handlers
\* Two REST handlers for the same route; the resolver of h1 answers with
\* res.once(...), the resolver of h2 with res(..., ctx.delay(100), ...).
Handlers == {"h1", "h2"}

\* More REST handlers, declared for the study of parse and predicate alone:
\* rest.post('/user'), rest.get('/user/:id'), rest.get('/docs/:id/:page'),
\* rest.get('/user?page=1') and rest.delete('/docs/*').
RestHandlers ==
    Handlers \cup {"postUser", "getUserById", "getDocPage", "getUserPaged", "deleteDocs"}

HandlerDecl(h) ==
    CASE h = "h1" ->
            [method |-> "GET", mask |-> <<"user">>, once |-> TRUE,
             transformers |-> <<[type |-> "body", value |-> [type |-> "text", value |-> "once-user"]]>>]
      [] h = "h2" ->
            [method |-> "GET", mask |-> <<"user">>, once |-> FALSE,
             transformers |-> <<[type |-> "status", code |-> 200, text |-> "OK"],
                                [type |-> "delay", ms |-> 100],
                                [type |-> "body", value |-> [type |-> "text", value |-> "John"]]>>]
      [] h = "postUser" ->
            [method |-> "POST", mask |-> <<"user">>, once |-> FALSE, transformers |-> <<>>]
      [] h = "getUserById" ->
            [method |-> "GET", mask |-> <<"user", ":id">>, once |-> FALSE,
             transformers |-> <<>>]
      [] h = "getDocPage" ->
            [method |-> "GET", mask |-> <<"docs", ":id", ":page">>, once |-> FALSE,
             transformers |-> <<>>]
      [] h = "getUserPaged" ->
            [method |-> "GET", mask |-> <<"user?page=1">>, once |-> FALSE,
             transformers |-> <<>>]
      [] OTHER ->
            [method |-> "DELETE", mask |-> <<"docs", "*">>, once |-> FALSE,
             transformers |-> <<>>]

\* The exception a faulty resolver raises.
ResolverError == [name |-> "ReferenceError", message |-> "nonExisting is not defined"]

\* What one run of a resolver may end in.
ResolverResults == {"response", "nothing", "throw"}

\* Lists the setup call may be given.
DeclaredLists == {<<"h1", "h2">>, <<"h2", "h1">>}

\* Handlers one use(...) call may be given, and one resetHandlers(...) call.
UseArguments == {<<"h1">>, <<"h2">>, <<"h1", "h2">>, <<"h2", "h1">>}

ResetArguments == UseArguments \cup {<<>>}

\* ------------------------------------------------------ intercepted requests
Request(m, path, bypass) ==
    [method |-> m, url |-> path,
     headers |-> IF bypass THEN ("accept" :> "*/*") @@ ("x-msw-bypass" :> "true")
                 ELSE ("accept" :> "*/*")]

Requests ==
    {Request("GET", <<"user">>, FALSE),
     Request("GET", <<"docs">>, FALSE),
     Request("POST", <<"user">>, FALSE),
     Request("GET", <<"user">>, TRUE)}

HeadersGet(headers, name) ==
    IF name \in DOMAIN headers THEN headers[name] ELSE ""

\* ----------------------------------------------------------- URL matching
toLowerCase(s) ==
    CASE s = "GET" -> "get"
      [] s = "POST" -> "post"
      [] s = "Post" -> "post"
      [] s = "DELETE" -> "delete"
      [] s = "X-Powered-By" -> "x-powered-by"
      [] s = "Content-Type" -> "content-type"
      [] s = "X-Token" -> "x-token"
      [] OTHER -> s

isStringEqual(actual, expected) == toLowerCase(actual) = toLowerCase(expected)

IsParam(segment) == segment \in {":page", ":id"}

ParamName(segment) == IF segment = ":page" THEN "page" ELSE "id"

\* getCleanUrl: a mask without the query string written after its last segment.
getCleanUrl(mask) ==
    IF Len(mask) > 0 /\ mask[Len(mask)] = "user?page=1"
    THEN [mask EXCEPT ![Len(mask)] = "user"]
    ELSE mask

\* The query string written in a mask, empty when there is none.
search(mask) ==
    IF Len(mask) > 0 /\ mask[Len(mask)] = "user?page=1" THEN "?page=1" ELSE ""

\* The comparison of a path with a mask that holds no query string: segment by
\* segment, a parameter standing for one segment and a final * for any rest.
match(url, mask) ==
    LET wildcard == Len(mask) > 0 /\ mask[Len(mask)] = "*"
        fixed == IF wildcard THEN Len(mask) - 1 ELSE Len(mask)
        segmentsMatch ==
            /\ IF wildcard THEN Len(url) >= fixed ELSE Len(url) = fixed
            /\ \A i \in 1..fixed : IsParam(mask[i]) \/ mask[i] = url[i]
        names == {i \in 1..fixed : IsParam(mask[i])}
    IN  [matches |-> segmentsMatch,
         params |-> IF segmentsMatch
                    THEN {<<ParamName(mask[i]), url[i]>> : i \in names}
                    ELSE {}]

\* The given mask is cleaned once and the path compared with the clean mask.
matchRequestUrl(url, givenMask) ==
    CHOOSE result \in {match(url, mask) : mask \in {getCleanUrl(givenMask)}} : TRUE

\* getPublicRequest handing the resolver no parameters.
getPublicRequestWithoutParams(h, req, parsedRequest) ==
    [method |-> req.method, url |-> req.url, headers |-> req.headers,
     searchParams |-> req.searchParams, body |-> req.body, params |-> {},
     variables |-> Undefined]

\* createRestHandler(method)(mask, resolver).getPublicRequest; a mask is a
\* string that is not empty and the params of a match are an object, so that
\* (mask && parsedRequest.match.params) || {} is the params of the match.
getPublicRequest(h, req, parsedRequest) ==
    LET params == parsedRequest.match.params
    IN  [method |-> req.method, url |-> req.url, headers |-> req.headers,
         searchParams |-> req.searchParams, body |-> req.body, params |-> params,
         variables |-> Undefined]

\* createRestHandler(method)(mask, resolver).log: the number of warnings about
\* query parameters in the mask that one call prints.
log(h) == IF search(HandlerDecl(h).mask) # "" THEN 1 ELSE 0

\* createRestHandler(method)(mask, resolver).parse
parse(h, req) == [match |-> matchRequestUrl(req.url, HandlerDecl(h).mask)]

\* The predicate comparing the two methods as they are spelled.
predicateComparingExactly(h, req, parsedRequest) ==
    HandlerDecl(h).method = req.method /\ parsedRequest.match.matches

\* createRestHandler(method)(mask, resolver).predicate
predicate(h, req, parsedRequest) ==
    isStringEqual(HandlerDecl(h).method, req.method) /\ parsedRequest.match.matches

\* --------------------------------------------------------------- JSON values
\* A JSON value is a string, a number, an array or an object; an object keeps
\* its entries in insertion order, as a JavaScript object does.
JNull == [t |-> "null"]

JStr(s) == [t |-> "str", s |-> s]

JNum(n) == [t |-> "num", n |-> n]

JArr(items) == [t |-> "arr", items |-> items]

JObj(entries) == [t |-> "obj", entries |-> entries]

Entry(k, v) == [k |-> k, v |-> v]

Keys(obj) == {obj.entries[i].k : i \in 1..Len(obj.entries)}

ValueAt(obj, k) ==
    obj.entries[CHOOSE i \in 1..Len(obj.entries) : obj.entries[i].k = k].v

\* JSON.stringify: the text of a value, as the sequence of its tokens.
Punct(c) == [p |-> c]

RECURSIVE stringify(_)
RECURSIVE stringifyItems(_, _)
stringifyItems(items, i) ==
    IF i > Len(items) THEN <<>>
    ELSE (IF i > 1 THEN <<Punct(",")>> ELSE <<>>)
            \o stringify(items[i]) \o stringifyItems(items, i + 1)

RECURSIVE stringifyEntries(_, _)
stringifyEntries(entries, i) ==
    IF i > Len(entries) THEN <<>>
    ELSE (IF i > 1 THEN <<Punct(",")>> ELSE <<>>)
            \o <<[key |-> entries[i].k], Punct(":")>>
            \o stringify(entries[i].v) \o stringifyEntries(entries, i + 1)

stringify(v) ==
    CASE v.t = "obj" -> <<Punct("{")>> \o stringifyEntries(v.entries, 1) \o <<Punct("}")>>
      [] v.t = "arr" -> <<Punct("[")>> \o stringifyItems(v.items, 1) \o <<Punct("]")>>
      [] v.t = "str" -> <<[string |-> v.s]>>
      [] v.t = "null" -> <<[literal |-> "null"]>>
      [] OTHER -> <<[number |-> v.n]>>

\* The deep merge the json transformer does in merge mode: the entries of the
\* new value come first; where both values hold an object under a key the two
\* are merged, anywhere else the new value's entry stands; the entries only the
\* existing value has follow.
RECURSIVE mergeDeep(_, _)
mergeDeep(next, existing) ==
    LET merged(i) ==
            LET e == next.entries[i]
            IN  IF /\ e.k \in Keys(existing)
                   /\ e.v.t = "obj"
                   /\ ValueAt(existing, e.k).t = "obj"
                THEN Entry(e.k, mergeDeep(e.v, ValueAt(existing, e.k)))
                ELSE e
    IN  JObj([i \in 1..Len(next.entries) |-> merged(i)]
             \o SelectSeq(existing.entries, LAMBDA e : e.k \notin Keys(next)))

\* The values the json transformer is given in this model.
John == JObj(<<Entry("firstName", JStr("John")),
               Entry("address", JObj(<<Entry("street", JStr("Sunwell Ave.")),
                                       Entry("houseNumber", JNum(12))>>)),
               Entry("tags", JArr(<<JNum(1), JNum(2)>>))>>)

Maverick == JObj(<<Entry("lastName", JStr("Maverick"))>>)

Jack == JObj(<<Entry("firstName", JStr("Jack")),
               Entry("address", JObj(<<Entry("houseNumber", JNum(7))>>)),
               Entry("tags", JArr(<<JNum(3)>>))>>)

JsonArguments == {John, Maverick, Jack}

RECURSIVE MergeClosure(_, _)
MergeClosure(values, n) ==
    IF n = 0 THEN values
    ELSE MergeClosure(values \cup {mergeDeep(a, b) : a \in JsonArguments, b \in values},
                      n - 1)

\* ------------------------------------------------ GraphQL request payloads
\* The operation texts requests carry in this model.
DocGetUser == "query GetUser { user { id } }"

DocMutationGetUser == "mutation GetUser { user { id } }"

DocLogin == "mutation Login { login { token } }"

DocAnonymous == "{ user { id } }"

DocAnonymousMutation == "mutation { logout }"

DocTwoOperations == "query GetUser { user { id } } mutation Login { login { token } }"

DocFragmentFirst == "fragment F on User { id } query GetPosts { posts { id } }"

DocUnbalanced == "query GetUser {"

DocTest == "test"

Documents ==
    {DocGetUser, DocMutationGetUser, DocLogin, DocAnonymous, DocAnonymousMutation,
     DocTwoOperations, DocFragmentFirst, DocUnbalanced, DocTest}

\* The variables requests carry, and the variables of an upload.
UserVariables == JObj(<<Entry("id", JStr("abc-123"))>>)

UploadVariables ==
    JObj(<<Entry("file", JNull),
           Entry("input", JObj(<<Entry("avatar", JNull)>>)),
           Entry("note", JStr("memo"))>>)

\* The value of the operations field of a multipart request.
Operations(query, variables) ==
    JObj((IF query = "" THEN <<>> ELSE <<Entry("query", JStr(query))>>)
         \o (IF variables = Undefined THEN <<>> ELSE <<Entry("variables", variables)>>))

\* The value of its map field: upload field name to the dot paths it goes to.
UploadMap(field, dotPaths) ==
    JObj(<<Entry(field, JArr([i \in 1..Len(dotPaths) |-> JStr(dotPaths[i])]))>>)

UploadMaps ==
    {UploadMap("0", <<"variables.file">>),
     UploadMap("0", <<"variables.file", "variables.input.avatar">>),
     UploadMap("0", <<"variables.missing.avatar">>),
     UploadMap("0", <<"variables.note.avatar">>),
     UploadMap("1", <<"variables.file">>)}

GraphQLJsonValues ==
    {UserVariables, UploadVariables}
      \cup {Operations(DocLogin, UploadVariables), Operations(DocLogin, Undefined),
            Operations("", UserVariables), Operations(DocUnbalanced, UploadVariables)}
      \cup UploadMaps

\* Every JSON value a text of this model stands for: what a composition of at
\* most MaxCompose json transformers can hold, and the GraphQL payloads.
JsonUniverse ==
    MergeClosure(JsonArguments \cup {JObj(<<>>)}, MaxCompose) \cup GraphQLJsonValues

StringifyTable == [v \in JsonUniverse |-> stringify(v)]

\* The JSON text of a value, as a request or a response carries it.
JsonText(v) == [type |-> "json-text", tokens |-> stringify(v)]

\* jsonParse: the value a text is the JSON text of, or undefined when it is no
\* JSON text.
jsonParse(text) ==
    IF /\ text.type = "json-text"
       /\ \E v \in JsonUniverse : StringifyTable[v] = text.tokens
    THEN CHOOSE v \in JsonUniverse : StringifyTable[v] = text.tokens
    ELSE Undefined

\* jsonParse(body) || {}
jsonParseOrEmpty(text) ==
    LET parsed == jsonParse(text)
    IN  IF parsed = Undefined THEN JObj(<<>>) ELSE parsed

\* ----------------------------------------------------- response composition
defaultResponse == [status |-> 200, statusText |-> "OK", body |-> [type |-> "null"], delay |-> 0]

\* The standard text of a status code.
statuses(code) ==
    CASE code = 200 -> "OK"
      [] code = 301 -> "Moved Permanently"
      [] code = 403 -> "Forbidden"
      [] code = 500 -> "Internal Server Error"
      [] OTHER -> ""

\* Headers.set: names are kept in lower case, a second value replaces the first.
HeadersSet(headers, name, value) == (toLowerCase(name) :> value) @@ headers

\* The transformers with delays that add up.
ApplyTransformerAddingDelays(res, t) ==
    CASE t.type = "status" ->
            [res EXCEPT !.status = t.code,
                        !.statusText = IF t.text = "" THEN statuses(t.code) ELSE t.text]
      [] t.type = "body" -> [res EXCEPT !.body = t.value]
      [] t.type = "delay" -> [res EXCEPT !.delay = @ + t.ms]
      [] t.type = "set" -> [res EXCEPT !.headers = HeadersSet(@, t.name, t.value)]
      [] t.type = "json" ->
            [res EXCEPT
                !.headers = HeadersSet(@, "Content-Type", "application/json"),
                !.body = [type |-> "json-text",
                          tokens |-> stringify(IF t.merge
                                               THEN mergeDeep(t.value, jsonParseOrEmpty(res.body))
                                               ELSE t.value)]]
      [] OTHER -> res

\* The json transformer whose merge mode stops at the first level: an object
\* of the new value replaces the object the body holds under the same key.
ApplyTransformerMergingShallow(res, t) ==
    CASE t.type = "status" ->
            [res EXCEPT !.status = t.code,
                        !.statusText = IF t.text = "" THEN statuses(t.code) ELSE t.text]
      [] t.type = "body" -> [res EXCEPT !.body = t.value]
      [] t.type = "delay" -> [res EXCEPT !.delay = t.ms]
      [] t.type = "set" -> [res EXCEPT !.headers = HeadersSet(@, t.name, t.value)]
      [] t.type = "json" ->
            [res EXCEPT
                !.headers = HeadersSet(@, "Content-Type", "application/json"),
                !.body = [type |-> "json-text",
                          tokens |-> stringify(
                              IF t.merge
                              THEN LET existing == jsonParseOrEmpty(res.body)
                                   IN  JObj(t.value.entries \o
                                            SelectSeq(existing.entries,
                                                      LAMBDA e : e.k \notin Keys(t.value)))
                              ELSE t.value)]]
      [] OTHER -> res

\* The context transformers: status(code, text), body(value), delay(ms),
\* set(name, value) and json(value, {merge}); each takes a response descriptor
\* and returns it changed.
ApplyTransformer(res, t) ==
    CASE t.type = "status" ->
            [res EXCEPT !.status = t.code,
                        !.statusText = IF t.text = "" THEN statuses(t.code) ELSE t.text]
      [] t.type = "body" -> [res EXCEPT !.body = t.value]
      [] t.type = "delay" -> [res EXCEPT !.delay = t.ms]
      [] t.type = "set" -> [res EXCEPT !.headers = HeadersSet(@, t.name, t.value)]
      [] t.type = "json" ->
            [res EXCEPT
                !.headers = HeadersSet(@, "Content-Type", "application/json"),
                !.body = [type |-> "json-text",
                          tokens |-> stringify(IF t.merge
                                               THEN mergeDeep(t.value, jsonParseOrEmpty(res.body))
                                               ELSE t.value)]]
      [] OTHER -> res

\* The transformers response(...) is given in this model.
Transformers ==
    {[type |-> "status", code |-> 403, text |-> ""],
     [type |-> "status", code |-> 301, text |-> "Custom text"],
     [type |-> "delay", ms |-> 100],
     [type |-> "delay", ms |-> 50],
     [type |-> "set", name |-> "X-Token", value |-> "a"],
     [type |-> "set", name |-> "x-token", value |-> "b"],
     [type |-> "body", value |-> [type |-> "text", value |-> "John"]],
     [type |-> "body", value |-> [type |-> "text", value |-> "once-user"]],
     [type |-> "json", value |-> John, merge |-> TRUE],
     [type |-> "json", value |-> Maverick, merge |-> TRUE],
     [type |-> "json", value |-> Jack, merge |-> TRUE],
     [type |-> "json", value |-> Maverick, merge |-> FALSE]}

\* R.compose in the place of R.pipe: the last transformer is applied first.
RECURSIVE pipeRightToLeft(_, _)
pipeRightToLeft(transformers, res) ==
    IF transformers = <<>> THEN res
    ELSE ApplyTransformer(pipeRightToLeft(Tail(transformers), res), Head(transformers))

RECURSIVE pipe(_, _)
pipe(transformers, res) ==
    IF transformers = <<>> THEN res
    ELSE pipe(Tail(transformers), ApplyTransformer(res, Head(transformers)))

response(transformers) ==
    LET headers == HeadersSet(EmptyHeaders, "X-Powered-By", "msw")
        initialResponse ==
            [status |-> defaultResponse.status,
             statusText |-> defaultResponse.statusText,
             body |-> defaultResponse.body,
             delay |-> defaultResponse.delay,
             headers |-> headers]
    IN  IF Len(transformers) > 0 THEN pipe(transformers, initialResponse)
        ELSE initialResponse

\* --------------------------------------------------------- GraphQL handlers
\* graphql.query('GetUser'), graphql.mutation('GetUser'), graphql.mutation('Login'),
\* graphql.query(/^Get/), graphql.operation, and the query and operation handlers
\* of graphql.link('/graphql').
GraphQLHandlers ==
    {"queryGetUser", "mutationGetUser", "mutationLogin", "queryGet", "operation",
     "linkQueryGetUser", "linkOperation"}

\* graphQLRequestHandler(expectedOperationType, expectedOperationName, mask, resolver)
GraphQLDecl(h) ==
    CASE h = "queryGetUser" ->
            [expectedOperationType |-> "query",
             expectedOperationName |-> [string |-> "GetUser"], mask |-> <<"*">>]
      [] h = "mutationGetUser" ->
            [expectedOperationType |-> "mutation",
             expectedOperationName |-> [string |-> "GetUser"], mask |-> <<"*">>]
      [] h = "mutationLogin" ->
            [expectedOperationType |-> "mutation",
             expectedOperationName |-> [string |-> "Login"], mask |-> <<"*">>]
      [] h = "queryGet" ->
            [expectedOperationType |-> "query",
             expectedOperationName |-> [regexp |-> "^Get"], mask |-> <<"*">>]
      [] h = "operation" ->
            [expectedOperationType |-> "all",
             expectedOperationName |-> [regexp |-> ".*"], mask |-> <<"*">>]
      [] h = "linkQueryGetUser" ->
            [expectedOperationType |-> "query",
             expectedOperationName |-> [string |-> "GetUser"], mask |-> <<"graphql">>]
      [] OTHER ->
            [expectedOperationType |-> "all",
             expectedOperationName |-> [regexp |-> ".*"], mask |-> <<"graphql">>]

Some(v) == [value |-> v]

Null == [null |-> TRUE]

Threw == [threw |-> TRUE]

\* RegExp.prototype.test, for the patterns and the names of this model.
RegExpTest(regexp, string) ==
    CASE regexp = ".*" -> TRUE
      [] regexp = "^Get" -> string \in {"GetUser", "GetPosts"}
      [] OTHER -> FALSE

OperationDefinition(operation, name) ==
    [kind |-> "OperationDefinition", operation |-> operation, name |-> name]

FragmentDefinition(name) ==
    [kind |-> "FragmentDefinition", operation |-> "fragment", name |-> Some(name)]

\* parse of the graphql package: the definitions of a document in the order
\* they are written, or a syntax error.
graphql_parse(query) ==
    CASE query = DocGetUser ->
            [ok |-> TRUE,
             definitions |-> <<OperationDefinition("query", Some("GetUser"))>>]
      [] query = DocMutationGetUser ->
            [ok |-> TRUE,
             definitions |-> <<OperationDefinition("mutation", Some("GetUser"))>>]
      [] query = DocLogin ->
            [ok |-> TRUE,
             definitions |-> <<OperationDefinition("mutation", Some("Login"))>>]
      [] query = DocAnonymous ->
            [ok |-> TRUE, definitions |-> <<OperationDefinition("query", Undefined)>>]
      [] query = DocAnonymousMutation ->
            [ok |-> TRUE, definitions |-> <<OperationDefinition("mutation", Undefined)>>]
      [] query = DocTwoOperations ->
            [ok |-> TRUE,
             definitions |-> <<OperationDefinition("query", Some("GetUser")),
                               OperationDefinition("mutation", Some("Login"))>>]
      [] query = DocFragmentFirst ->
            [ok |-> TRUE,
             definitions |-> <<FragmentDefinition("F"),
                               OperationDefinition("query", Some("GetPosts"))>>]
      [] OTHER -> [ok |-> FALSE, definitions |-> <<>>]

\* parseQuery taking the first operation of the document, whatever its type.
parseQueryOfAnyOperation(query, definitionOperation) ==
    LET ast == graphql_parse(query)
        found == {i \in 1..Len(ast.definitions) :
                     ast.definitions[i].kind = "OperationDefinition"}
    IN  IF ~ast.ok THEN Threw
        ELSE IF found = {}
        THEN [operationType |-> Undefined, operationName |-> Undefined]
        ELSE LET operationDef ==
                     ast.definitions[CHOOSE i \in found : \A j \in found : i <= j]
             IN  [operationType |-> Some(operationDef.operation),
                  operationName |-> operationDef.name]

parseQuery(query, definitionOperation) ==
    LET ast == graphql_parse(query)
        found == {i \in 1..Len(ast.definitions) :
                     /\ ast.definitions[i].kind = "OperationDefinition"
                     /\ \/ definitionOperation = "all"
                        \/ ast.definitions[i].operation = definitionOperation}
    IN  IF ~ast.ok THEN Threw
        ELSE IF found = {}
        THEN [operationType |-> Undefined, operationName |-> Undefined]
        ELSE LET operationDef ==
                     ast.definitions[CHOOSE i \in found : \A j \in found : i <= j]
             IN  [operationType |-> Some(operationDef.operation),
                  operationName |-> operationDef.name]

\* String.prototype.split('.') on the dot paths of this model.
split(dotPath) ==
    CASE dotPath = "variables.file" -> <<"variables", "file">>
      [] dotPath = "variables.input.avatar" -> <<"variables", "input", "avatar">>
      [] dotPath = "variables.missing.avatar" -> <<"variables", "missing", "avatar">>
      [] dotPath = "variables.note.avatar" -> <<"variables", "note", "avatar">>
      [] OTHER -> <<dotPath>>

File(name) == [t |-> "file", name |-> name]

\* target[lastPath] = file, with target the object the steps of paths lead to
\* from root; Threw when a step is not in the object reached so far or when what
\* is reached is no object.
RECURSIVE WriteAt(_, _, _, _)
WriteAt(root, paths, lastPath, file) ==
    IF root.t # "obj" THEN Threw
    ELSE IF paths = <<>>
    THEN IF lastPath \in Keys(root)
         THEN JObj([i \in 1..Len(root.entries) |->
                      IF root.entries[i].k = lastPath THEN Entry(lastPath, file)
                      ELSE root.entries[i]])
         ELSE JObj(Append(root.entries, Entry(lastPath, file)))
    ELSE IF Head(paths) \notin Keys(root) THEN Threw
    ELSE LET inner == WriteAt(ValueAt(root, Head(paths)), Tail(paths), lastPath, file)
         IN  IF inner = Threw THEN Threw
             ELSE JObj([i \in 1..Len(root.entries) |->
                          IF root.entries[i].k = Head(paths) THEN Entry(Head(paths), inner)
                          ELSE root.entries[i]])

RECURSIVE WriteAll(_, _, _, _)
WriteAll(operations, pathArray, i, file) ==
    IF i > Len(pathArray) THEN operations
    ELSE LET steps == split(pathArray[i].s)
             written == WriteAt(operations, SubSeq(steps, 1, Len(steps) - 1),
                                steps[Len(steps)], file)
         IN  IF written = Threw THEN Threw
             ELSE WriteAll(written, pathArray, i + 1, file)

RECURSIVE buildMultipartVariablesFrom(_, _, _, _)
buildMultipartVariablesFrom(operations, map, k, files) ==
    IF k > Len(map.entries) THEN ValueAt(operations, "variables")
    ELSE IF map.entries[k].k \notin DOMAIN files THEN Threw
    ELSE LET written == WriteAll(operations, map.entries[k].v.items, 1,
                                 files[map.entries[k].k])
         IN  IF written = Threw THEN Threw
             ELSE buildMultipartVariablesFrom(written, map, k + 1, files)

buildMultipartVariables(variables, map, files) ==
    buildMultipartVariablesFrom(JObj(<<Entry("variables", variables)>>), map, 1, files)

\* graphQLRequestHandler(...).parse
graphQLRequestHandlerParse(h, req) ==
    LET expectedOperationType == GraphQLDecl(h).expectedOperationType
    IN  CASE req.method = "GET" ->
                IF "query" \notin DOMAIN req.searchParams THEN Null
                ELSE LET parsedQuery ==
                             parseQuery(req.searchParams["query"], expectedOperationType)
                         variables ==
                             IF "variables" \in DOMAIN req.searchParams
                             THEN jsonParse(req.searchParams["variables"])
                             ELSE JObj(<<>>)
                     IN  IF parsedQuery = Threw THEN Threw
                         ELSE [operationType |-> parsedQuery.operationType,
                               operationName |-> parsedQuery.operationName,
                               variables |-> variables]
          [] req.method = "POST" ->
                IF "query" \in DOMAIN req.body
                THEN LET parsedQuery == parseQuery(req.body.query, expectedOperationType)
                     IN  IF parsedQuery = Threw THEN Threw
                         ELSE [operationType |-> parsedQuery.operationType,
                               operationName |-> parsedQuery.operationName,
                               variables |-> IF "variables" \in DOMAIN req.body
                                             THEN req.body.variables ELSE Undefined]
                ELSE IF "operations" \in DOMAIN req.body
                THEN LET parsedOperations == jsonParseOrEmpty(req.body.operations)
                         parsedMap == IF "map" \in DOMAIN req.body
                                      THEN jsonParseOrEmpty(req.body.map)
                                      ELSE JObj(<<>>)
                     IN  IF "query" \notin Keys(parsedOperations) THEN Null
                         ELSE LET parsedQuery ==
                                      parseQuery(ValueAt(parsedOperations, "query").s,
                                                 expectedOperationType)
                                  variables ==
                                      IF "variables" \in Keys(parsedOperations)
                                      THEN buildMultipartVariables(
                                               ValueAt(parsedOperations, "variables"),
                                               parsedMap, req.body.files)
                                      ELSE JObj(<<>>)
                              IN  IF parsedQuery = Threw THEN Threw
                                  ELSE IF variables = Threw THEN Null
                                  ELSE [operationType |-> parsedQuery.operationType,
                                        operationName |-> parsedQuery.operationName,
                                        variables |-> variables]
                ELSE Null
          [] OTHER -> Null

\* graphQLRequestHandler(...).getPublicRequest
graphQLRequestHandlerGetPublicRequest(h, req, parsed) ==
    [method |-> req.method, url |-> req.url, headers |-> req.headers,
     searchParams |-> req.searchParams, body |-> req.body, params |-> {},
     variables |-> IF parsed.variables = Undefined THEN JObj(<<>>) ELSE parsed.variables]

\* graphQLRequestHandler(...).predicate
\* A predicate that does not compare the URL of the request with the mask.
graphQLRequestHandlerPredicateAnywhere(h, req, parsed) ==
    IF parsed = Null THEN FALSE
    ELSE IF parsed.operationName = Undefined THEN FALSE
    ELSE LET expectedOperationName == GraphQLDecl(h).expectedOperationName
         IN  IF "regexp" \in DOMAIN expectedOperationName
             THEN RegExpTest(expectedOperationName.regexp, parsed.operationName.value)
             ELSE expectedOperationName.string = parsed.operationName.value

\* A predicate that decides by the mask alone when parse gave no operation.
graphQLRequestHandlerPredicateByMask(h, req, parsed) ==
    IF parsed = Null THEN matchRequestUrl(req.url, GraphQLDecl(h).mask).matches
    ELSE IF parsed.operationName = Undefined THEN FALSE
    ELSE LET expectedOperationName == GraphQLDecl(h).expectedOperationName
             isMatchingOperation ==
                 IF "regexp" \in DOMAIN expectedOperationName
                 THEN RegExpTest(expectedOperationName.regexp, parsed.operationName.value)
                 ELSE expectedOperationName.string = parsed.operationName.value
         IN  matchRequestUrl(req.url, GraphQLDecl(h).mask).matches /\ isMatchingOperation

graphQLRequestHandlerPredicate(h, req, parsed) ==
    IF parsed = Null THEN FALSE
    ELSE IF parsed.operationName = Undefined THEN FALSE
    ELSE LET expectedOperationName == GraphQLDecl(h).expectedOperationName
             hasMatchingMask == matchRequestUrl(req.url, GraphQLDecl(h).mask)
             isMatchingOperation ==
                 IF "regexp" \in DOMAIN expectedOperationName
                 THEN RegExpTest(expectedOperationName.regexp, parsed.operationName.value)
                 ELSE expectedOperationName.string = parsed.operationName.value
         IN  hasMatchingMask.matches /\ isMatchingOperation

\* ------------------------------------------- requests put to single handlers
NoSearchParams == [n \in {} |-> ""]

NoBody == [absent |-> TRUE]

HandlerRequest(m, path, searchParams, body) ==
    [method |-> m, url |-> path, headers |-> ("accept" :> "*/*"),
     searchParams |-> searchParams, body |-> body]

RestProbeRequests ==
    {HandlerRequest(m, path, searchParams, NoBody) :
        m \in {"GET", "get", "POST", "Post", "DELETE"},
        path \in {<<"user">>, <<"user", "42">>, <<"user", "42", "extra">>, <<"docs">>,
                  <<"docs", "a", "b">>},
        searchParams \in {NoSearchParams, "page" :> "2"}}

UploadBody(operations, map) ==
    [operations |-> JsonText(operations), map |-> JsonText(map),
     files |-> ("0" :> File("avatar.png"))]

GraphQLProbeRequests ==
    {HandlerRequest("GET", path, "query" :> doc, NoBody) :
        doc \in Documents, path \in {<<"graphql">>, <<"api">>}}
      \cup {HandlerRequest("POST", path, NoSearchParams, [query |-> doc]) :
               doc \in Documents, path \in {<<"graphql">>, <<"api">>}}
      \cup {HandlerRequest("GET", <<"graphql">>,
                           ("query" :> DocGetUser) @@ ("variables" :> JsonText(UserVariables)),
                           NoBody),
            HandlerRequest("GET", <<"graphql">>,
                           ("query" :> DocGetUser)
                              @@ ("variables" :> [type |-> "text", value |-> "{id"]),
                           NoBody),
            HandlerRequest("POST", <<"graphql">>, NoSearchParams,
                           [query |-> DocGetUser, variables |-> UserVariables]),
            HandlerRequest("GET", <<"graphql">>, NoSearchParams, NoBody),
            HandlerRequest("POST", <<"graphql">>, NoSearchParams, NoBody),
            HandlerRequest("POST", <<"graphql">>, NoSearchParams,
                           [variables |-> UserVariables]),
            HandlerRequest("PUT", <<"graphql">>, "query" :> DocGetUser,
                           [query |-> DocGetUser]),
            HandlerRequest("POST", <<"graphql">>, NoSearchParams,
                           [operations |-> JsonText(Operations(DocLogin, Undefined))]),
            HandlerRequest("POST", <<"graphql">>, NoSearchParams,
                           [operations |-> JsonText(Operations("", UserVariables))]),
            HandlerRequest("POST", <<"graphql">>, NoSearchParams,
                           [operations |-> [type |-> "text", value |-> "{query"]])}
      \cup {HandlerRequest("POST", <<"graphql">>, NoSearchParams,
                           UploadBody(Operations(DocLogin, UploadVariables), map)) :
               map \in UploadMaps}
      \cup {HandlerRequest("POST", <<"graphql">>, NoSearchParams,
                           UploadBody(Operations(DocUnbalanced, UploadVariables),
                                      UploadMap("0", <<"variables.file">>))),
            HandlerRequest("POST", <<"graphql">>, NoSearchParams,
                           UploadBody(Operations(DocLogin, Undefined),
                                      UploadMap("1", <<"variables.file">>)))}

ProbeRequests == RestProbeRequests \cup GraphQLProbeRequests

ProbeHandlers == RestHandlers \cup GraphQLHandlers

\* parse and predicate of a handler of either kind.
HandlerParse(h, req) ==
    IF h \in GraphQLHandlers THEN graphQLRequestHandlerParse(h, req) ELSE parse(h, req)

HandlerPredicate(h, req, parsedRequest) ==
    IF h \in GraphQLHandlers THEN graphQLRequestHandlerPredicate(h, req, parsedRequest)
    ELSE predicate(h, req, parsedRequest)

\* The number of warnings one call of a handler's log prints.
HandlerLog(h) == IF h \in GraphQLHandlers THEN 0 ELSE log(h)

HandlerGetPublicRequest(h, req, parsedRequest) ==
    IF h \in GraphQLHandlers THEN graphQLRequestHandlerGetPublicRequest(h, req, parsedRequest)
    ELSE getPublicRequest(h, req, parsedRequest)

\* ------------------------------------------------------------------- state
VARIABLES
    env,                     \* "node" | "browser": what isNodeProcess() answers
    requestHandlers,         \* the array of handlers the setup call received
    currentHandlers,         \* setupServer: the list requests are resolved against
    contextRequestHandlers,  \* setupWorker: context.requestHandlers
    aliased,                 \* the current list is the very array requestHandlers
    shouldSkip,              \* per handler object: consumed by a one-shot response
    inflight,                \* bag of suspended resolutions
    declared,                \* history: the handlers as originally declared
    served,                  \* history: responses a one-shot handler produced
                             \*          since its flag was last cleared
    last,                    \* history: the most recent call or settled request
    objects,                 \* response descriptors: defaultResponse and results
    headersOf,               \* the Headers objects the descriptors refer to
    call,                    \* the response(...) call under way, or the last one
    kept,                    \* a result of response() its caller still holds
    probe,                   \* one handler's parse and predicate run on one request
    listeners,               \* setupWorker.ts: the module's list of added listeners
    attached,                \* the listeners every event target holds
    promises                 \* the promises the once() calls returned, in call order

vars == <<env, requestHandlers, currentHandlers, contextRequestHandlers, aliased,
          shouldSkip, inflight, declared, served, last,
          objects, headersOf, call, kept, probe, listeners, attached, promises>>

\* The state of the handler list and its resolutions.
listVars == <<env, requestHandlers, currentHandlers, contextRequestHandlers, aliased,
              shouldSkip, inflight, declared, served, last>>

\* The state of response composition.
responseVars == <<objects, headersOf, call, kept>>

\* The state of one handler's matching.
probeVars == <<probe>>

\* The state of the event listeners of setupWorker.
registryVars == <<listeners, attached, promises>>

\* What the steps of each of the four leave alone.
outsideList == <<responseVars, probeVars, registryVars>>

outsideResponse == <<listVars, probeVars, registryVars>>

outsideProbe == <<listVars, responseVars, registryVars>>

outsideRegistry == <<env, requestHandlers, currentHandlers, contextRequestHandlers,
                     aliased, shouldSkip, inflight, declared, served,
                     responseVars, probeVars>>

TypeOK ==
    /\ env \in {"node", "browser"}
    /\ declared \in DeclaredLists
    /\ requestHandlers \in Seq(Handlers)
    /\ currentHandlers \in Seq(Handlers)
    /\ contextRequestHandlers \in Seq(Handlers)
    /\ aliased \in BOOLEAN
    /\ shouldSkip \in [Handlers -> BOOLEAN]
    /\ IsABag(inflight)
    /\ served \in [Handlers -> Nat]
    /\ call.pc \in {"idle", "piping", "returned"}
    /\ kept \in {"none", "r1", "r2"}
    /\ probe.pc \in {"idle", "intercepted", "parsed", "threw", "decided", "published",
                    "logged"}
    /\ probe.matches \in BOOLEAN

\* No handler is being put to a request.
NoProbe ==
    [pc |-> "idle", handler |-> NoHandler, req |-> NoRequest,
     parsedRequest |-> Undefined, matches |-> FALSE, publicRequest |-> Undefined,
     warnings |-> 0]

\* The event targets listeners are added to.
EventTargets == {"navigator.serviceWorker", "window"}

\* The module is loaded: let listeners = [], and no target holds a listener.
NoListeners ==
    /\ listeners = <<>>
    /\ attached = [target \in EventTargets |-> {}]
    /\ promises = <<>>

\* ------------------------------------------------------------------ history
CallEvent(op, args, before, cleared) ==
    [op |-> op, args |-> args, before |-> before, cleared |-> cleared, req |-> NoRequest,
     selected |-> NoHandler, invoked |-> <<>>, handler |-> NoHandler,
     response |-> NoResponse, unhandled |-> FALSE, result |-> "none"]

RequestEvent(req, selected, invoked, handler, res, unhandled, result) ==
    [op |-> "request", args |-> <<>>, before |-> <<>>, cleared |-> {}, req |-> req,
     selected |-> selected, invoked |-> invoked, handler |-> handler,
     response |-> res, unhandled |-> unhandled, result |-> result]

\* ---------------------------------------------------- handler list mutation
\* requestHandlerUtils.use: the new handlers go in front, in the given order.
use(handlers, newHandlers) == newHandlers \o handlers

\* requestHandlerUtils.restoreHandlers: every handler of the list is eligible again.
restoreHandlers(handlers, skip) ==
    [h \in Handlers |-> IF h \in Range(handlers) THEN FALSE ELSE skip[h]]

\* resetHandlers that replaces the list and leaves the one-shot flags alone.
resetHandlersKeepingFlags(initialHandlers, nextHandlers, skip) ==
    [handlers |-> IF Len(nextHandlers) > 0 THEN nextHandlers ELSE initialHandlers,
     sameArray |-> FALSE,
     shouldSkip |-> skip]

\* requestHandlerUtils.resetHandlers: the next handlers if any are given, else a
\* fresh copy of the initial ones; the one-shot flags of the result are cleared.
\* resetHandlers that hands back the array of initial handlers itself when it
\* is given no next handlers.
resetHandlersReturningInitial(initialHandlers, nextHandlers, skip) ==
    LET result == IF Len(nextHandlers) > 0 THEN nextHandlers ELSE initialHandlers
    IN  [handlers |-> result,
         sameArray |-> Len(nextHandlers) = 0,
         shouldSkip |-> [h \in Handlers |-> IF h \in Range(result) THEN FALSE ELSE skip[h]]]

resetHandlers(initialHandlers, nextHandlers, skip) ==
    LET result == IF Len(nextHandlers) > 0 THEN nextHandlers ELSE initialHandlers
    IN  [handlers |-> result,
         sameArray |-> FALSE,
         shouldSkip |-> [h \in Handlers |-> IF h \in Range(result) THEN FALSE ELSE skip[h]]]

\* Handlers whose consumed flag a call turned off.
Cleared(before, after) == {h \in Handlers : before[h] /\ ~after[h]}

ServedAfter(handlers) ==
    [h \in Handlers |-> IF h \in Range(handlers) THEN 0 ELSE served[h]]

\* ------------------------------------------------------------- resolution
\* getResponse, up to the call of the resolver: the first handler in list order
\* that is not consumed and whose parse and predicate accept the request.
getResponseSelect(req, handlers, skip) ==
    LET relevant == {i \in 1..Len(handlers) :
                        /\ ~skip[handlers[i]]
                        /\ predicate(handlers[i], req, parse(handlers[i], req))}
    IN  IF relevant = {} THEN NoHandler
        ELSE handlers[CHOOSE i \in relevant : \A j \in relevant : i <= j]

\* The fault response composed like a mocked one, through response(): it carries
\* the header every composed response starts with.
errorResponseComposed(error) ==
    response(<<[type |-> "status", code |-> 500, text |-> "Internal Server Error"],
               [type |-> "body",
                value |-> [type |-> "json", errorType |-> error.name,
                           message |-> error.message]]>>)

\* The response synthesized for a resolver fault.
errorResponse(error) ==
    [status |-> 500, statusText |-> "Internal Server Error",
     body |-> [type |-> "json", errorType |-> error.name, message |-> error.message],
     delay |-> 0, headers |-> EmptyHeaders]

\* getResponseSettle that marks a one-shot handler consumed without looking at
\* the flag first.
getResponseSettleUnguarded(h, result, skip) ==
    CASE result = "throw" ->
            [response |-> errorResponse(ResolverError), handler |-> h,
             shouldSkip |-> skip, result |-> "throw"]
      [] result = "nothing" ->
            [response |-> NoResponse, handler |-> h,
             shouldSkip |-> skip, result |-> "nothing"]
      [] OTHER ->
            [response |-> response(HandlerDecl(h).transformers), handler |-> h,
             shouldSkip |-> IF HandlerDecl(h).once THEN [skip EXCEPT ![h] = TRUE] ELSE skip,
             result |-> "response"]

\* getResponseSettle that marks a one-shot handler consumed as soon as its
\* resolver has run, whatever it ended in.
getResponseSettleMarksFirst(h, result, skip) ==
    LET marked == IF HandlerDecl(h).once THEN [skip EXCEPT ![h] = TRUE] ELSE skip
    IN  CASE result = "throw" ->
                [response |-> errorResponse(ResolverError), handler |-> h,
                 shouldSkip |-> marked, result |-> "throw"]
          [] result = "nothing" ->
                [response |-> NoResponse, handler |-> h,
                 shouldSkip |-> marked, result |-> "nothing"]
          [] OTHER ->
                IF HandlerDecl(h).once /\ skip[h]
                THEN [response |-> NoResponse, handler |-> NoHandler,
                      shouldSkip |-> skip, result |-> "raced"]
                ELSE [response |-> response(HandlerDecl(h).transformers), handler |-> h,
                      shouldSkip |-> marked, result |-> "response"]

\* getResponse, from the moment the awaited resolver settles.
\* getResponseSettle that marks every one-shot handler consumed when a
\* response comes back, not the selected handler alone.
getResponseSettleConsumingAll(h, result, skip) ==
    CASE result = "throw" ->
            [response |-> errorResponse(ResolverError), handler |-> h,
             shouldSkip |-> skip, result |-> "throw"]
      [] result = "nothing" ->
            [response |-> NoResponse, handler |-> h,
             shouldSkip |-> skip, result |-> "nothing"]
      [] OTHER ->
            IF HandlerDecl(h).once /\ skip[h]
            THEN [response |-> NoResponse, handler |-> NoHandler,
                  shouldSkip |-> skip, result |-> "raced"]
            ELSE [response |-> response(HandlerDecl(h).transformers), handler |-> h,
                  shouldSkip |-> [k \in Handlers |-> skip[k] \/ HandlerDecl(k).once],
                  result |-> "response"]

getResponseSettle(h, result, skip) ==
    CASE result = "throw" ->
            [response |-> errorResponse(ResolverError), handler |-> h,
             shouldSkip |-> skip, result |-> "throw"]
      [] result = "nothing" ->
            [response |-> NoResponse, handler |-> h,
             shouldSkip |-> skip, result |-> "nothing"]
      [] OTHER ->
            IF HandlerDecl(h).once
            THEN IF skip[h]
                 THEN [response |-> NoResponse, handler |-> NoHandler,
                       shouldSkip |-> skip, result |-> "raced"]
                 ELSE [response |-> response(HandlerDecl(h).transformers), handler |-> h,
                       shouldSkip |-> [skip EXCEPT ![h] = TRUE], result |-> "response"]
            ELSE [response |-> response(HandlerDecl(h).transformers), handler |-> h,
                  shouldSkip |-> skip, result |-> "response"]

ServedBy(settled) ==
    IF settled.result = "response" /\ HandlerDecl(settled.handler).once
    THEN [served EXCEPT ![settled.handler] = @ + 1]
    ELSE served

\* A resolution that has started no timer.
NoTimer == [none |-> TRUE]

\* setTimeout(callback, ms): the timer the callback waits for.
setTimeout(ms) == [ms |-> ms]

\* response.delay ?? 0
DelayOrZero(res) == IF "delay" \in DOMAIN res THEN res.delay ELSE 0

Task(pc, req, h, invoked, res) ==
    [pc |-> pc, req |-> req, handler |-> h, invoked |-> invoked, response |-> res,
     timer |-> NoTimer]

Suspended(pc) == {t \in BagToSet(inflight) : t.pc = pc}

\* ------------------------------------------- response composition, stepwise
\* References to the descriptor objects and to the Headers objects.
ResultRefs == {"r1", "r2"}

HeadersRefs == {"hs1", "hs2"}

NoRef == "none"

\* Before the first call: the module holds defaultResponse and nothing else.
NoResponseCalls ==
    /\ objects = [r \in ResultRefs \cup {"defaultResponse"} |->
                    IF r = "defaultResponse" THEN defaultResponse ELSE NoResponse]
    /\ headersOf = [h \in HeadersRefs |-> EmptyHeaders]
    /\ call = [pc |-> "idle", transformers |-> <<>>, target |-> NoRef]
    /\ kept = NoRef

\* The descriptor a reference stands for, its headers read out.
Deref(r) ==
    [status |-> objects[r].status, statusText |-> objects[r].statusText,
     body |-> objects[r].body, delay |-> objects[r].delay,
     headers |-> headersOf[objects[r].headers]]

\* An object no live reference points to.
FreshResult == CHOOSE r \in ResultRefs : r # kept

FreshHeaders ==
    CHOOSE h \in HeadersRefs : kept = NoRef \/ h # objects[kept].headers

\* response(...) with one Headers object for the whole module, made and stamped
\* when the module loads, in the place of a new one per call.
ResponseCallSharingHeaders ==
    /\ call.pc # "piping"
    /\ LET headers == "hs1"
           initialResponse == FreshResult
       IN  /\ headersOf' = [headersOf EXCEPT
                               ![headers] = HeadersSet(@, "X-Powered-By", "msw")]
           /\ objects' = [r \in DOMAIN objects |->
                            IF r = initialResponse
                            THEN [status |-> objects["defaultResponse"].status,
                                  statusText |-> objects["defaultResponse"].statusText,
                                  body |-> objects["defaultResponse"].body,
                                  delay |-> objects["defaultResponse"].delay,
                                  headers |-> headers]
                            ELSE IF r \in {kept, "defaultResponse"} THEN objects[r]
                            ELSE NoResponse]
           /\ call' = [pc |-> "piping", transformers |-> <<>>, target |-> initialResponse]
    /\ UNCHANGED <<kept, outsideResponse>>

\* response(...), up to the pipe: a new Headers object with the identifying
\* header, and initialResponse, a copy of defaultResponse that refers to it.
ResponseCall ==
    /\ call.pc # "piping"
    /\ LET headers == FreshHeaders
           initialResponse == FreshResult
       IN  /\ headersOf' = [h \in HeadersRefs |->
                              IF h = headers
                              THEN HeadersSet(EmptyHeaders, "X-Powered-By", "msw")
                              ELSE IF kept # NoRef /\ h = objects[kept].headers
                              THEN headersOf[h]
                              ELSE EmptyHeaders]
           /\ objects' = [r \in DOMAIN objects |->
                            IF r = initialResponse
                            THEN [status |-> objects["defaultResponse"].status,
                                  statusText |-> objects["defaultResponse"].statusText,
                                  body |-> objects["defaultResponse"].body,
                                  delay |-> objects["defaultResponse"].delay,
                                  headers |-> headers]
                            ELSE IF r \in {kept, "defaultResponse"} THEN objects[r]
                            ELSE NoResponse]
           /\ call' = [pc |-> "piping", transformers |-> <<>>, target |-> initialResponse]
    /\ UNCHANGED <<kept, outsideResponse>>

\* What one transformer leaves of the object it is handed: the descriptor's
\* fields and, through its reference, the Headers object.
Transformed(r, t) == ApplyTransformer(Deref(r), t)

\* The pipe built the other way round: the transformer applied now is the one
\* written first among those applied so far.
PipeStepComposing(t) ==
    /\ call.pc = "piping"
    /\ Len(call.transformers) < MaxCompose
    /\ LET out == Transformed(call.target, t)
       IN  /\ objects' = [objects EXCEPT
                             ![call.target] = [status |-> out.status,
                                               statusText |-> out.statusText,
                                               body |-> out.body,
                                               delay |-> out.delay,
                                               headers |-> @.headers]]
           /\ headersOf' = [headersOf EXCEPT ![objects[call.target].headers] = out.headers]
    /\ call' = [call EXCEPT !.transformers = <<t>> \o @]
    /\ UNCHANGED <<kept, outsideResponse>>

\* R.pipe(...transformers)(initialResponse), one transformer at a time: the next
\* argument of the call is applied to what the previous one returned.
PipeStep(t) ==
    /\ call.pc = "piping"
    /\ Len(call.transformers) < MaxCompose
    /\ LET out == Transformed(call.target, t)
       IN  /\ objects' = [objects EXCEPT
                             ![call.target] = [status |-> out.status,
                                               statusText |-> out.statusText,
                                               body |-> out.body,
                                               delay |-> out.delay,
                                               headers |-> @.headers]]
           /\ headersOf' = [headersOf EXCEPT ![objects[call.target].headers] = out.headers]
    /\ call' = [call EXCEPT !.transformers = Append(@, t)]
    /\ UNCHANGED <<kept, outsideResponse>>

\* response(...) returns the piped descriptor (initialResponse itself when it
\* was given no transformer).
ResponseReturn ==
    /\ call.pc = "piping"
    /\ call' = [call EXCEPT !.pc = "returned"]
    /\ UNCHANGED <<objects, headersOf, kept, outsideResponse>>

\* The caller holds on to the result of a response() call without transformers.
KeepResult ==
    /\ call.pc = "returned"
    /\ call.transformers = <<>>
    /\ kept = NoRef
    /\ kept' = call.target
    /\ call' = [pc |-> "idle", transformers |-> <<>>, target |-> NoRef]
    /\ UNCHANGED <<objects, headersOf, outsideResponse>>

\* The caller sets a header on the result it holds.
KeptHeadersSet(name, value) ==
    /\ kept # NoRef
    /\ headersOf' = [headersOf EXCEPT
                        ![objects[kept].headers] = HeadersSet(@, name, value)]
    /\ UNCHANGED <<objects, call, kept, outsideResponse>>

\* ------------------------------------------------------------------- set-up
\* setupServer(...requestHandlers) in a NodeJS process, or
\* setupWorker(...requestHandlers) in a browser; the other call throws.
Init ==
    /\ env \in {"node", "browser"}
    /\ declared \in DeclaredLists
    /\ requestHandlers = declared
    /\ currentHandlers = IF env = "node" THEN requestHandlers ELSE <<>>
    /\ contextRequestHandlers = IF env = "browser" THEN requestHandlers ELSE <<>>
    /\ aliased = FALSE
    /\ shouldSkip = [h \in Handlers |-> FALSE]
    /\ inflight = EmptyBag
    /\ served = [h \in Handlers |-> 0]
    /\ last = CallEvent("setup", declared, <<>>, {})
    /\ NoResponseCalls
    /\ probe = NoProbe
    /\ NoListeners

\* ------------------------------------------------------ setupServer: listen
\* Listen with the request resolved against the handlers the setup call was
\* given instead of the current list.
ListenInitialList(req) ==
    /\ env = "node"
    /\ IF HeadersGet(req.headers, "x-msw-bypass") # ""
       THEN /\ last' = RequestEvent(req, NoHandler, <<>>, NoHandler, NoResponse,
                                    FALSE, "bypassed")
            /\ UNCHANGED inflight
       ELSE LET h == getResponseSelect(req, requestHandlers, shouldSkip)
            IN  IF h = NoHandler
                THEN /\ last' = RequestEvent(req, NoHandler, <<>>, NoHandler,
                                             NoResponse, TRUE, "unmatched")
                     /\ UNCHANGED inflight
                ELSE /\ BagCardinality(inflight) < MaxInFlight
                     /\ inflight' = inflight (+)
                            SetToBag({Task("resolving", req, h, <<h>>, NoResponse)})
                     /\ UNCHANGED last
    /\ UNCHANGED <<env, requestHandlers, currentHandlers, contextRequestHandlers,
                   aliased, shouldSkip, declared, served>>

\* Listen that returns without a word when getResponse has no response: the
\* unhandled-request policy is never consulted.
ListenSilentWhenUnmatched(req) ==
    /\ env = "node"
    /\ IF HeadersGet(req.headers, "x-msw-bypass") # ""
       THEN /\ last' = RequestEvent(req, NoHandler, <<>>, NoHandler, NoResponse,
                                    FALSE, "bypassed")
            /\ UNCHANGED inflight
       ELSE LET h == getResponseSelect(req, currentHandlers, shouldSkip)
            IN  IF h = NoHandler
                THEN /\ last' = RequestEvent(req, NoHandler, <<>>, NoHandler,
                                             NoResponse, FALSE, "unmatched")
                     /\ UNCHANGED inflight
                ELSE /\ BagCardinality(inflight) < MaxInFlight
                     /\ inflight' = inflight (+)
                            SetToBag({Task("resolving", req, h, <<h>>, NoResponse)})
                     /\ UNCHANGED last
    /\ UNCHANGED <<env, requestHandlers, currentHandlers, contextRequestHandlers,
                   aliased, shouldSkip, declared, served>>

\* Listen that does not look at the x-msw-bypass header.
ListenIgnoringBypass(req) ==
    /\ env = "node"
    /\ LET h == getResponseSelect(req, currentHandlers, shouldSkip)
       IN  IF h = NoHandler
           THEN /\ last' = RequestEvent(req, NoHandler, <<>>, NoHandler,
                                        NoResponse, TRUE, "unmatched")
                /\ UNCHANGED inflight
           ELSE /\ BagCardinality(inflight) < MaxInFlight
                /\ inflight' = inflight (+)
                       SetToBag({Task("resolving", req, h, <<h>>, NoResponse)})
                /\ UNCHANGED last
    /\ UNCHANGED <<env, requestHandlers, currentHandlers, contextRequestHandlers,
                   aliased, shouldSkip, declared, served>>

\* The interceptor callback, from the intercepted request to the point where
\* it awaits the resolver of the selected handler (or returns without one).
Listen(req) ==
    /\ env = "node"
    /\ IF HeadersGet(req.headers, "x-msw-bypass") # ""
       THEN /\ last' = RequestEvent(req, NoHandler, <<>>, NoHandler, NoResponse,
                                    FALSE, "bypassed")
            /\ UNCHANGED inflight
       ELSE LET h == getResponseSelect(req, currentHandlers, shouldSkip)
            IN  IF h = NoHandler
                THEN /\ last' = RequestEvent(req, NoHandler, <<>>, NoHandler,
                                             NoResponse, TRUE, "unmatched")
                     /\ UNCHANGED inflight
                ELSE /\ BagCardinality(inflight) < MaxInFlight
                     /\ inflight' = inflight (+)
                            SetToBag({Task("resolving", req, h, <<h>>, NoResponse)})
                     /\ UNCHANGED last
    /\ UNCHANGED <<env, requestHandlers, currentHandlers, contextRequestHandlers,
                   aliased, shouldSkip, declared, served>>

\* What the timer callback hands to the interceptor.
MockedInterceptedResponse(res) ==
    [status |-> res.status, statusText |-> res.statusText,
     headers |-> res.headers, body |-> res.body]

\* ListenResume that hands a response without delay to the interceptor at
\* once, with no timer in between.
ListenResumeWithoutTimer(t, result) ==
    /\ env = "node"
    /\ t \in Suspended("resolving")
    /\ LET settled == getResponseSettle(t.handler, result, shouldSkip)
       IN  /\ shouldSkip' = settled.shouldSkip
           /\ served' = ServedBy(settled)
           /\ IF settled.response = NoResponse
              THEN /\ inflight' = inflight (-) SetToBag({t})
                   /\ last' = RequestEvent(t.req, t.handler, t.invoked, settled.handler,
                                           NoResponse, TRUE, settled.result)
              ELSE IF DelayOrZero(settled.response) = 0
              THEN /\ inflight' = inflight (-) SetToBag({t})
                   /\ last' = RequestEvent(t.req, t.handler, t.invoked, settled.handler,
                                           MockedInterceptedResponse(settled.response),
                                           FALSE, settled.result)
              ELSE /\ inflight' = (inflight (-) SetToBag({t})) (+)
                          SetToBag({[t EXCEPT !.pc = settled.result,
                                              !.response = settled.response,
                                              !.timer = setTimeout(DelayOrZero(settled.response))]})
                   /\ UNCHANGED last
    /\ UNCHANGED <<env, requestHandlers, currentHandlers, contextRequestHandlers,
                   aliased, declared>>

\* ListenResume that looks the handler up in the current list again when the
\* resolver settles, instead of keeping the one selected at the start.
ListenResumeReselecting(t, result) ==
    /\ env = "node"
    /\ t \in Suspended("resolving")
    /\ LET h == getResponseSelect(t.req, currentHandlers, shouldSkip)
           settled == IF h = NoHandler
                      THEN [response |-> NoResponse, handler |-> NoHandler,
                            shouldSkip |-> shouldSkip, result |-> "unmatched"]
                      ELSE getResponseSettle(h, result, shouldSkip)
       IN  /\ shouldSkip' = settled.shouldSkip
           /\ served' = ServedBy(settled)
           /\ IF settled.response = NoResponse
              THEN /\ inflight' = inflight (-) SetToBag({t})
                   /\ last' = RequestEvent(t.req, t.handler, t.invoked, settled.handler,
                                           NoResponse, TRUE, settled.result)
              ELSE /\ inflight' = (inflight (-) SetToBag({t})) (+)
                          SetToBag({[t EXCEPT !.pc = settled.result,
                                              !.handler = settled.handler,
                                              !.response = settled.response,
                                              !.timer = setTimeout(DelayOrZero(settled.response))]})
                   /\ UNCHANGED last
    /\ UNCHANGED <<env, requestHandlers, currentHandlers, contextRequestHandlers,
                   aliased, declared>>

\* ListenResume in which a resolver fault escapes the callback and takes the
\* other suspended resolutions down with it.
ListenResumeFaultAborts(t, result) ==
    /\ env = "node"
    /\ t \in Suspended("resolving")
    /\ LET settled == getResponseSettle(t.handler, result, shouldSkip)
       IN  /\ shouldSkip' = settled.shouldSkip
           /\ served' = ServedBy(settled)
           /\ IF settled.result = "throw"
              THEN /\ inflight' = EmptyBag
                   /\ last' = RequestEvent(t.req, t.handler, t.invoked, settled.handler,
                                           NoResponse, FALSE, "throw")
              ELSE IF settled.response = NoResponse
              THEN /\ inflight' = inflight (-) SetToBag({t})
                   /\ last' = RequestEvent(t.req, t.handler, t.invoked, settled.handler,
                                           NoResponse, TRUE, settled.result)
              ELSE /\ inflight' = (inflight (-) SetToBag({t})) (+)
                          SetToBag({[t EXCEPT !.pc = settled.result,
                                              !.response = settled.response,
                                              !.timer = setTimeout(DelayOrZero(settled.response))]})
                   /\ UNCHANGED last
    /\ UNCHANGED <<env, requestHandlers, currentHandlers, contextRequestHandlers,
                   aliased, declared>>

\* The continuation of the callback once the awaited getResponse settles: no
\* response goes to the unhandled-request policy, a response to a timer.
ListenResume(t, result) ==
    /\ env = "node"
    /\ t \in Suspended("resolving")
    /\ LET settled == getResponseSettle(t.handler, result, shouldSkip)
       IN  /\ shouldSkip' = settled.shouldSkip
           /\ served' = ServedBy(settled)
           /\ IF settled.response = NoResponse
              THEN /\ inflight' = inflight (-) SetToBag({t})
                   /\ last' = RequestEvent(t.req, t.handler, t.invoked, settled.handler,
                                           NoResponse, TRUE, settled.result)
              ELSE /\ inflight' = (inflight (-) SetToBag({t})) (+)
                          SetToBag({[t EXCEPT !.pc = settled.result,
                                              !.response = settled.response,
                                              !.timer = setTimeout(DelayOrZero(settled.response))]})
                   /\ UNCHANGED last
    /\ UNCHANGED <<env, requestHandlers, currentHandlers, contextRequestHandlers,
                   aliased, declared>>

\* setTimeout(..., response.delay ?? 0) fires.
TimerFires(t) ==
    /\ env = "node"
    /\ t \in BagToSet(inflight)
    /\ t.timer # NoTimer
    /\ inflight' = inflight (-) SetToBag({t})
    /\ last' = RequestEvent(t.req, t.handler, t.invoked, t.handler,
                            MockedInterceptedResponse(t.response), FALSE, t.pc)
    /\ UNCHANGED <<env, requestHandlers, currentHandlers, contextRequestHandlers,
                   aliased, shouldSkip, declared, served>>

\* ------------------------------------------- setupServer: list mutation calls
\* use that puts the new handlers behind the present ones.
SetupServerUseAppending(handlers) ==
    /\ env = "node"
    /\ Len(currentHandlers) + Len(handlers) <= MaxList
    /\ currentHandlers' = currentHandlers \o handlers
    /\ requestHandlers' = IF aliased THEN currentHandlers' ELSE requestHandlers
    /\ last' = CallEvent("use", handlers, currentHandlers, {})
    /\ UNCHANGED <<env, contextRequestHandlers, aliased, shouldSkip, inflight,
                   declared, served>>

SetupServerUse(handlers) ==
    /\ env = "node"
    /\ Len(currentHandlers) + Len(handlers) <= MaxList
    /\ currentHandlers' = use(currentHandlers, handlers)
    /\ requestHandlers' = IF aliased THEN currentHandlers' ELSE requestHandlers
    /\ last' = CallEvent("use", handlers, currentHandlers, {})
    /\ UNCHANGED <<env, contextRequestHandlers, aliased, shouldSkip, inflight,
                   declared, served>>

\* restoreHandlers that calls resetHandlers: the flags are cleared, but the
\* current list is replaced by the initial handlers.
SetupServerRestoreByReset ==
    /\ env = "node"
    /\ LET reset == resetHandlers(requestHandlers, <<>>, shouldSkip)
       IN  /\ currentHandlers' = reset.handlers
           /\ aliased' = reset.sameArray
           /\ shouldSkip' = reset.shouldSkip
           /\ served' = ServedAfter(reset.handlers)
    /\ last' = CallEvent("restoreHandlers", <<>>, currentHandlers,
                         Cleared(shouldSkip, shouldSkip'))
    /\ UNCHANGED <<env, requestHandlers, contextRequestHandlers, inflight, declared>>

SetupServerRestoreHandlers ==
    /\ env = "node"
    /\ shouldSkip' = restoreHandlers(currentHandlers, shouldSkip)
    /\ served' = ServedAfter(currentHandlers)
    /\ last' = CallEvent("restoreHandlers", <<>>, currentHandlers,
                         Cleared(shouldSkip, shouldSkip'))
    /\ UNCHANGED <<env, requestHandlers, currentHandlers, contextRequestHandlers,
                   aliased, inflight, declared>>

\* resetHandlers that hands the current list, not the initial handlers, to
\* requestHandlerUtils.resetHandlers.
SetupServerResetToCurrent(nextHandlers) ==
    /\ env = "node"
    /\ LET reset == resetHandlers(currentHandlers, nextHandlers, shouldSkip)
       IN  /\ currentHandlers' = reset.handlers
           /\ aliased' = reset.sameArray
           /\ shouldSkip' = reset.shouldSkip
           /\ served' = ServedAfter(reset.handlers)
    /\ last' = CallEvent("resetHandlers", nextHandlers, currentHandlers,
                         Cleared(shouldSkip, shouldSkip'))
    /\ UNCHANGED <<env, requestHandlers, contextRequestHandlers, inflight, declared>>

SetupServerResetHandlers(nextHandlers) ==
    /\ env = "node"
    /\ LET reset == resetHandlers(requestHandlers, nextHandlers, shouldSkip)
       IN  /\ currentHandlers' = reset.handlers
           /\ aliased' = reset.sameArray
           /\ shouldSkip' = reset.shouldSkip
           /\ served' = ServedAfter(reset.handlers)
    /\ last' = CallEvent("resetHandlers", nextHandlers, currentHandlers,
                         Cleared(shouldSkip, shouldSkip'))
    /\ UNCHANGED <<env, requestHandlers, contextRequestHandlers, inflight, declared>>

\* ------------------------------------------- setupWorker: list mutation calls
SetupWorkerUse(handlers) ==
    /\ env = "browser"
    /\ Len(contextRequestHandlers) + Len(handlers) <= MaxList
    /\ contextRequestHandlers' = use(contextRequestHandlers, handlers)
    /\ requestHandlers' = IF aliased THEN contextRequestHandlers' ELSE requestHandlers
    /\ last' = CallEvent("use", handlers, contextRequestHandlers, {})
    /\ UNCHANGED <<env, currentHandlers, aliased, shouldSkip, inflight,
                   declared, served>>

SetupWorkerRestoreHandlers ==
    /\ env = "browser"
    /\ shouldSkip' = restoreHandlers(contextRequestHandlers, shouldSkip)
    /\ served' = ServedAfter(contextRequestHandlers)
    /\ last' = CallEvent("restoreHandlers", <<>>, contextRequestHandlers,
                         Cleared(shouldSkip, shouldSkip'))
    /\ UNCHANGED <<env, requestHandlers, currentHandlers, contextRequestHandlers,
                   aliased, inflight, declared>>

SetupWorkerResetHandlers(nextHandlers) ==
    /\ env = "browser"
    /\ LET reset == resetHandlers(requestHandlers, nextHandlers, shouldSkip)
       IN  /\ contextRequestHandlers' = reset.handlers
           /\ aliased' = reset.sameArray
           /\ shouldSkip' = reset.shouldSkip
           /\ served' = ServedAfter(reset.handlers)
    /\ last' = CallEvent("resetHandlers", nextHandlers, contextRequestHandlers,
                         Cleared(shouldSkip, shouldSkip'))
    /\ UNCHANGED <<env, requestHandlers, currentHandlers, inflight, declared>>

\* ------------------------------------------------ setupWorker: resolution
\* The worker's request callback, up to the call of the selected resolver.
WorkerRequest(req) ==
    /\ env = "browser"
    /\ HeadersGet(req.headers, "x-msw-bypass") = ""
    /\ LET h == getResponseSelect(req, contextRequestHandlers, shouldSkip)
       IN  IF h = NoHandler
           THEN /\ last' = RequestEvent(req, NoHandler, <<>>, NoHandler,
                                        NoResponse, TRUE, "unmatched")
                /\ UNCHANGED inflight
           ELSE /\ BagCardinality(inflight) < MaxInFlight
                /\ inflight' = inflight (+)
                       SetToBag({Task("resolving", req, h, <<h>>, NoResponse)})
                /\ UNCHANGED last
    /\ UNCHANGED <<env, requestHandlers, currentHandlers, contextRequestHandlers,
                   aliased, shouldSkip, declared, served>>

\* Its continuation: the outcome is posted back to the Service Worker.
WorkerResume(t, result) ==
    /\ env = "browser"
    /\ t \in Suspended("resolving")
    /\ LET settled == getResponseSettle(t.handler, result, shouldSkip)
       IN  /\ shouldSkip' = settled.shouldSkip
           /\ served' = ServedBy(settled)
           /\ inflight' = inflight (-) SetToBag({t})
           /\ last' = RequestEvent(t.req, t.handler, t.invoked, settled.handler,
                                   settled.response,
                                   settled.handler = NoHandler, settled.result)
    /\ UNCHANGED <<env, requestHandlers, currentHandlers, contextRequestHandlers,
                   aliased, declared>>

\* ------------------------------------------------------------ specification
Next ==
    \/ (\E req \in Requests : Listen(req)) /\ UNCHANGED outsideList
    \/ (\E t \in BagToSet(inflight), result \in ResolverResults : ListenResume(t, result))
          /\ UNCHANGED outsideList
    \/ (\E t \in BagToSet(inflight) : TimerFires(t)) /\ UNCHANGED outsideList
    \/ (\E handlers \in UseArguments : SetupServerUse(handlers)) /\ UNCHANGED outsideList
    \/ SetupServerRestoreHandlers /\ UNCHANGED outsideList
    \/ (\E nextHandlers \in ResetArguments : SetupServerResetHandlers(nextHandlers))
          /\ UNCHANGED outsideList
    \/ (\E req \in Requests : WorkerRequest(req)) /\ UNCHANGED outsideList
    \/ (\E t \in BagToSet(inflight), result \in ResolverResults : WorkerResume(t, result))
          /\ UNCHANGED outsideList
    \/ (\E handlers \in UseArguments : SetupWorkerUse(handlers)) /\ UNCHANGED outsideList
    \/ SetupWorkerRestoreHandlers /\ UNCHANGED outsideList
    \/ (\E nextHandlers \in ResetArguments : SetupWorkerResetHandlers(nextHandlers))
          /\ UNCHANGED outsideList

Spec == Init /\ [][Next]_vars

\* ------------------------------------------ specification of the setup call
\* What a setup call may be given: handlers one by one, or arrays of handlers
\* among its arguments.
ArrayArguments == {"[h1, h2]", "[h2]", "[]"}

isArray(handler) == handler \in ArrayArguments

SetupArguments ==
    DeclaredLists \cup {<<"[h1, h2]">>, <<"h1", "[h2]">>, <<"[]">>, <<"[h2]", "h1">>}

\* The modules are loaded and no setup call was made.
Loaded ==
    /\ env \in {"node", "browser"}
    /\ declared = <<>>
    /\ requestHandlers = <<>>
    /\ currentHandlers = <<>>
    /\ contextRequestHandlers = <<>>
    /\ aliased = FALSE
    /\ shouldSkip = [h \in Handlers |-> FALSE]
    /\ inflight = EmptyBag
    /\ served = [h \in Handlers |-> 0]
    /\ last = CallEvent("load", <<>>, <<>>, {})
    /\ NoResponseCalls
    /\ probe = NoProbe
    /\ NoListeners

\* The setup call threw: which call, for which reason, and what it had
\* constructed by then.
Thrown(fn, args, cause, constructed) ==
    [call |-> fn, constructed |-> constructed]
        @@ [CallEvent("threw", args, <<>>, {}) EXCEPT !.result = cause]

\* The call returned its API object.
Returned(args) ==
    /\ declared' = args
    /\ requestHandlers' = args
    /\ currentHandlers' = IF env = "node" THEN args ELSE <<>>
    /\ contextRequestHandlers' = IF env = "browser" THEN args ELSE <<>>
    /\ last' = CallEvent("setup", args, <<>>, {})
    /\ UNCHANGED <<env, aliased, shouldSkip, inflight, served>>

NothingReturned ==
    UNCHANGED <<env, declared, requestHandlers, currentHandlers, contextRequestHandlers,
                aliased, shouldSkip, inflight, served>>

\* setupServer that looks for an array in its first argument only.
setupServerCheckingFirst(args) ==
    /\ last.op = "load"
    /\ IF Len(args) > 0 /\ isArray(args[1])
       THEN last' = Thrown("setupServer", args, "array", {}) /\ NothingReturned
       ELSE IF env # "node"
       THEN /\ last' = Thrown("setupServer", args, "environment", {"interceptor"})
            /\ NothingReturned
       ELSE Returned(args)
    /\ UNCHANGED outsideList

\* setupServer(...requestHandlers)
setupServer(args) ==
    /\ last.op = "load"
    /\ IF \E i \in 1..Len(args) : isArray(args[i])
       THEN last' = Thrown("setupServer", args, "array", {}) /\ NothingReturned
       ELSE IF env # "node"
       THEN /\ last' = Thrown("setupServer", args, "environment", {"interceptor"})
            /\ NothingReturned
       ELSE Returned(args)
    /\ UNCHANGED outsideList

\* setupWorker(...requestHandlers)
setupWorker(args) ==
    /\ last.op = "load"
    /\ IF \E i \in 1..Len(args) : isArray(args[i])
       THEN last' = Thrown("setupWorker", args, "array", {}) /\ NothingReturned
       ELSE IF env = "node"
       THEN /\ last' = Thrown("setupWorker", args, "environment", {"context"})
            /\ NothingReturned
       ELSE Returned(args)
    /\ UNCHANGED outsideList

\* The methods of the API object can be called once a setup call returned it.
ApiReturned == last.op \notin {"load", "threw"}

SetupNext ==
    \/ \E args \in SetupArguments : setupServer(args)
    \/ \E args \in SetupArguments : setupWorker(args)
    \/ ApiReturned /\ Next

SetupSpec == Loaded /\ [][SetupNext]_vars

\* ------------------------------------------- specification of response(...)
\* Calls of response(...) with up to MaxCompose transformers, one after the
\* other, by a caller that may keep a result and set headers on it.
ResponseInit ==
    /\ env = "node"
    /\ declared = <<"h1", "h2">>
    /\ requestHandlers = declared
    /\ currentHandlers = declared
    /\ contextRequestHandlers = <<>>
    /\ aliased = FALSE
    /\ shouldSkip = [h \in Handlers |-> FALSE]
    /\ inflight = EmptyBag
    /\ served = [h \in Handlers |-> 0]
    /\ last = CallEvent("setup", declared, <<>>, {})
    /\ NoResponseCalls
    /\ probe = NoProbe
    /\ NoListeners

ResponseNext ==
    \/ ResponseCall
    \/ \E t \in Transformers : PipeStep(t)
    \/ ResponseReturn
    \/ KeepResult
    \/ \E t \in {u \in Transformers : u.type = "set"} : KeptHeadersSet(t.name, t.value)

ResponseSpec == ResponseInit /\ [][ResponseNext]_vars

\* ------------------------------------- specification of a single handler
\* One request handler, REST or GraphQL, put to one request the way getResponse
\* puts every handler of the list to it: parse first, then predicate with what
\* parse returned.
HandlerIntercepts(h, req) ==
    /\ probe.pc \in {"idle", "decided", "threw", "published", "logged"}
    /\ probe' = [NoProbe EXCEPT !.pc = "intercepted", !.handler = h, !.req = req,
                                !.warnings = probe.warnings]
    /\ UNCHANGED outsideProbe

HandlerParses ==
    /\ probe.pc = "intercepted"
    /\ LET parsedRequest == HandlerParse(probe.handler, probe.req)
       IN  probe' = IF parsedRequest = Threw
                    THEN [probe EXCEPT !.pc = "threw"]
                    ELSE [probe EXCEPT !.pc = "parsed", !.parsedRequest = parsedRequest]
    /\ UNCHANGED outsideProbe

HandlerDecides ==
    /\ probe.pc = "parsed"
    /\ probe' = [probe EXCEPT
                    !.pc = "decided",
                    !.matches = HandlerPredicate(probe.handler, probe.req,
                                                 probe.parsedRequest)]
    /\ UNCHANGED outsideProbe

\* A publication that writes params and variables into the request descriptor
\* itself and gives that to the resolver.
HandlerPublishesAssigning ==
    /\ probe.pc = "decided"
    /\ probe.matches
    /\ LET publicRequest == HandlerGetPublicRequest(probe.handler, probe.req,
                                                    probe.parsedRequest)
       IN  probe' = [probe EXCEPT !.pc = "published", !.req = publicRequest,
                                  !.publicRequest = publicRequest]
    /\ UNCHANGED outsideProbe

\* The handler matched: its resolver is given the public request.
HandlerPublishes ==
    /\ probe.pc = "decided"
    /\ probe.matches
    /\ probe' = [probe EXCEPT
                    !.pc = "published",
                    !.publicRequest = HandlerGetPublicRequest(probe.handler, probe.req,
                                                              probe.parsedRequest)]
    /\ UNCHANGED outsideProbe

\* The mocked response of the handler was sent: the request, the response and
\* the handler are logged.
HandlerLogs ==
    /\ probe.pc = "published"
    /\ LET warnings == probe.warnings + HandlerLog(probe.handler)
       IN  /\ warnings <= MaxLogged
           /\ probe' = [probe EXCEPT !.pc = "logged", !.warnings = warnings]
    /\ UNCHANGED outsideProbe

HandlerInit ==
    /\ env = "node"
    /\ declared = <<"h1", "h2">>
    /\ requestHandlers = declared
    /\ currentHandlers = declared
    /\ contextRequestHandlers = <<>>
    /\ aliased = FALSE
    /\ shouldSkip = [h \in Handlers |-> FALSE]
    /\ inflight = EmptyBag
    /\ served = [h \in Handlers |-> 0]
    /\ last = CallEvent("setup", declared, <<>>, {})
    /\ NoResponseCalls
    /\ probe = NoProbe
    /\ NoListeners

HandlerNext ==
    \/ \E h \in ProbeHandlers, req \in ProbeRequests : HandlerIntercepts(h, req)
    \/ HandlerParses
    \/ HandlerDecides
    \/ HandlerPublishes

HandlerSpec == HandlerInit /\ [][HandlerNext]_vars

\* The same for the REST handlers alone, each mocked response being logged.
LogNext ==
    \/ \E h \in RestHandlers, req \in RestProbeRequests : HandlerIntercepts(h, req)
    \/ HandlerParses
    \/ HandlerDecides
    \/ HandlerPublishes
    \/ HandlerLogs

LogSpec == HandlerInit /\ [][LogNext]_vars

\* --------------------- specification of one operation over both transports
\* One GraphQL operation, sent to a handler once in the query string of a GET
\* request and once in the JSON body of a POST request.
LogicalOperations ==
    {[query |-> doc, variables |-> variables] :
        doc \in Documents, variables \in {Undefined, UserVariables, UploadVariables}}

GetRequestOf(operation) ==
    HandlerRequest("GET", <<"graphql">>,
                   IF operation.variables = Undefined
                   THEN "query" :> operation.query
                   ELSE ("query" :> operation.query)
                           @@ ("variables" :> JsonText(operation.variables)),
                   NoBody)

PostRequestOf(operation) ==
    HandlerRequest("POST", <<"graphql">>, NoSearchParams,
                   IF operation.variables = Undefined
                   THEN [query |-> operation.query]
                   ELSE [query |-> operation.query, variables |-> operation.variables])

NotParsed == [pending |-> TRUE]

NoTransport ==
    [pc |-> "idle", handler |-> NoHandler, operation |-> Undefined,
     get |-> NotParsed, post |-> NotParsed]

TransportSends(h, operation) ==
    /\ probe.pc = "idle" \/ (probe.get # NotParsed /\ probe.post # NotParsed)
    /\ probe' = [NoTransport EXCEPT !.pc = "sent", !.handler = h, !.operation = operation]
    /\ UNCHANGED outsideProbe

TransportParsesGet ==
    /\ probe.pc = "sent"
    /\ probe.get = NotParsed
    /\ probe' = [probe EXCEPT
                    !.get = graphQLRequestHandlerParse(probe.handler,
                                                       GetRequestOf(probe.operation))]
    /\ UNCHANGED outsideProbe

TransportParsesPost ==
    /\ probe.pc = "sent"
    /\ probe.post = NotParsed
    /\ probe' = [probe EXCEPT
                    !.post = graphQLRequestHandlerParse(probe.handler,
                                                        PostRequestOf(probe.operation))]
    /\ UNCHANGED outsideProbe

TransportInit ==
    /\ env = "node"
    /\ declared = <<"h1", "h2">>
    /\ requestHandlers = declared
    /\ currentHandlers = declared
    /\ contextRequestHandlers = <<>>
    /\ aliased = FALSE
    /\ shouldSkip = [h \in Handlers |-> FALSE]
    /\ inflight = EmptyBag
    /\ served = [h \in Handlers |-> 0]
    /\ last = CallEvent("setup", declared, <<>>, {})
    /\ NoResponseCalls
    /\ probe = NoTransport
    /\ NoListeners

TransportNext ==
    \/ \E h \in GraphQLHandlers, operation \in LogicalOperations :
          TransportSends(h, operation)
    \/ TransportParsesGet
    \/ TransportParsesPost

TransportSpec == TransportInit /\ [][TransportNext]_vars

\* --------------------------- specification of the event listeners of setupWorker
\* The setupWorker calls of one page: each returns an API object over a context
\* of its own.
Workers == {"w1", "w2"}

\* A function object made within the context of one setupWorker call; the
\* closures of one once() call carry the index of its promise, any other
\* function carries 0.
Closure(w, name, p) == [owner |-> w, name |-> name, promise |-> p]

Callback(w, name) == Closure(w, name, 0)

\* An entry of the list: { event, target, callback }.
Listener(event, target, callback) ==
    [event |-> event, target |-> target, callback |-> callback]

\* The listeners one call once(type) of a context adds: handleIncomingMessage
\* and reject are closures of that call's promise p.
OnceListeners(w, p) ==
    <<Listener("message", "navigator.serviceWorker",
               Closure(w, "handleIncomingMessage", p)),
      Listener("messageerror", "navigator.serviceWorker", Closure(w, "reject", p))>>

\* target.addEventListener(event, callback)
addEventListener(held, l) ==
    [held EXCEPT ![l.target] = @ \cup {[event |-> l.event, callback |-> l.callback]}]

\* target.removeEventListener(event, callback)
removeEventListener(held, l) ==
    [held EXCEPT ![l.target] = @ \ {[event |-> l.event, callback |-> l.callback]}]

\* removeEventListener for every entry of a list, in its order.
RECURSIVE removeEach(_, _)
removeEach(held, list) ==
    IF list = <<>>
    THEN held
    ELSE removeEach(removeEventListener(held, Head(list)), Tail(list))

\* The entry is held by its target.
IsAttached(l) == [event |-> l.event, callback |-> l.callback] \in attached[l.target]

ListenerEvent(op, w, before) == CallEvent(op, <<w>>, before, {})

\* context.events.addListener(target, event, callback)
ContextAddListener(w, target, event, callback) ==
    /\ env = "browser"
    /\ Len(listeners) < MaxListeners
    /\ attached' = addEventListener(attached, Listener(event, target, callback))
    /\ listeners' = Append(listeners, Listener(event, target, callback))
    /\ last' = ListenerEvent("addListener", w, listeners)
    /\ UNCHANGED <<promises, outsideRegistry>>

\* removeAllListeners that takes away the listeners of its own context only.
ContextRemoveOwnListeners(w) ==
    /\ env = "browser"
    /\ LET own == SelectSeq(listeners, LAMBDA l : l.callback.owner = w)
       IN  /\ attached' = removeEach(attached, own)
           /\ listeners' = SelectSeq(listeners, LAMBDA l : l.callback.owner # w)
    /\ last' = ListenerEvent("removeAllListeners", w, listeners)
    /\ UNCHANGED <<promises, outsideRegistry>>

\* context.events.removeAllListeners()
ContextRemoveAllListeners(w) ==
    /\ env = "browser"
    /\ attached' = removeEach(attached, listeners)
    /\ listeners' = <<>>
    /\ last' = ListenerEvent("removeAllListeners", w, listeners)
    /\ UNCHANGED <<promises, outsideRegistry>>

\* The data of the message events the page receives: two serialized messages
\* of different types, and a text that is not JSON.
MessageTypes == {"MOCKING_ENABLED", "INTEGRITY_CHECK_RESPONSE"}
Serialized(type) ==
    IF type = "MOCKING_ENABLED"
    THEN "{\"type\":\"MOCKING_ENABLED\",\"payload\":true}"
    ELSE "{\"type\":\"INTEGRITY_CHECK_RESPONSE\",\"payload\":\"65d33ca8\"}"
MessageData == {Serialized(type) : type \in MessageTypes} \cup {"{\"type\":"}

\* JSON.parse(event.data) in handleIncomingMessage: the message, or a throw.
ParseMessage(data) ==
    IF \E type \in MessageTypes : data = Serialized(type)
    THEN Some([type |-> CHOOSE type \in MessageTypes : data = Serialized(type),
               data |-> data])
    ELSE Threw

Pending(owner, type) ==
    [owner |-> owner, type |-> type, state |-> "pending", value |-> Undefined]

\* resolve(value) and reject(reason) of a promise: a settled promise ignores
\* both.
resolve(promise, value) ==
    IF promise.state = "pending"
    THEN [promise EXCEPT !.state = "resolved", !.value = Some(value)]
    ELSE promise
reject(promise, reason) ==
    IF promise.state = "pending"
    THEN [promise EXCEPT !.state = "rejected", !.value = Some(reason)]
    ELSE promise

\* handleIncomingMessage that resolves with a message of any type.
handleIncomingMessageOfAnyType(promise, data) ==
    IF ParseMessage(data) = Threw
    THEN reject(promise, [name |-> "SyntaxError"])
    ELSE resolve(promise, ParseMessage(data).value)

\* handleIncomingMessage of once(type), run on an event carrying the data.
handleIncomingMessage(promise, data) ==
    IF ParseMessage(data) = Threw
    THEN reject(promise, [name |-> "SyntaxError"])
    ELSE IF ParseMessage(data).value.type = promise.type
         THEN resolve(promise, ParseMessage(data).value)
         ELSE promise

\* The listeners of the promises an event settled: finally() unbinds both.
RECURSIVE Unbound(_, _, _)
Unbound(before, after, p) ==
    IF p > Len(before)
    THEN <<>>
    ELSE (IF before[p].state = "pending" /\ after[p].state # "pending"
          THEN OnceListeners(before[p].owner, p)
          ELSE <<>>) \o Unbound(before, after, p + 1)

\* context.events.once(type), up to the promise it returns: both listeners are
\* added through addListener.
ContextOnce(w, type) ==
    /\ env = "browser"
    /\ Len(listeners) + 2 <= MaxListeners
    /\ Len(promises) < MaxOnce
    /\ LET added == OnceListeners(w, Len(promises) + 1)
       IN  /\ attached' = addEventListener(addEventListener(attached, added[1]),
                                           added[2])
           /\ listeners' = listeners \o added
    /\ promises' = Append(promises, Pending(w, type))
    /\ last' = ListenerEvent("once", w, listeners)
    /\ UNCHANGED outsideRegistry

\* A 'message' event whose listeners settle promises they do not unbind.
ServiceWorkerMessageKeepingListeners(data) ==
    /\ env = "browser"
    /\ promises' =
          [p \in DOMAIN promises |->
              IF IsAttached(OnceListeners(promises[p].owner, p)[1])
              THEN handleIncomingMessage(promises[p], data)
              ELSE promises[p]]
    /\ last' = ListenerEvent("message", data, listeners)
    /\ UNCHANGED <<listeners, attached, outsideRegistry>>

\* navigator.serviceWorker receives a 'message' event: every handleIncomingMessage
\* it holds runs on the data, and the promises that settle unbind their
\* listeners; the list keeps its entries.
ServiceWorkerMessage(data) ==
    /\ env = "browser"
    /\ \E after \in {[p \in DOMAIN promises |->
                        IF IsAttached(OnceListeners(promises[p].owner, p)[1])
                        THEN handleIncomingMessage(promises[p], data)
                        ELSE promises[p]]} :
          /\ promises' = after
          /\ attached' = removeEach(attached, Unbound(promises, after, 1))
    /\ last' = ListenerEvent("message", data, listeners)
    /\ UNCHANGED <<listeners, outsideRegistry>>

\* navigator.serviceWorker receives a 'messageerror' event: every reject it
\* holds runs, and the promises that settle unbind their listeners.
ServiceWorkerMessageError ==
    /\ env = "browser"
    /\ \E after \in {[p \in DOMAIN promises |->
                        IF IsAttached(OnceListeners(promises[p].owner, p)[2])
                        THEN reject(promises[p], [name |-> "MessageEvent"])
                        ELSE promises[p]]} :
          /\ promises' = after
          /\ attached' = removeEach(attached, Unbound(promises, after, 1))
    /\ last' = ListenerEvent("messageerror", "navigator.serviceWorker", listeners)
    /\ UNCHANGED <<listeners, outsideRegistry>>

ListenerInit ==
    /\ env = "browser"
    /\ declared = <<"h1", "h2">>
    /\ requestHandlers = declared
    /\ currentHandlers = <<>>
    /\ contextRequestHandlers = declared
    /\ aliased = FALSE
    /\ shouldSkip = [h \in Handlers |-> FALSE]
    /\ inflight = EmptyBag
    /\ served = [h \in Handlers |-> 0]
    /\ last = CallEvent("setup", declared, <<>>, {})
    /\ NoResponseCalls
    /\ probe = NoProbe
    /\ NoListeners

ListenerNext ==
    \/ \E w \in Workers :
          ContextAddListener(w, "window", "message", Callback(w, "callback"))
    \/ \E w \in Workers : ContextRemoveAllListeners(w)
    \/ \E w \in Workers, type \in MessageTypes : ContextOnce(w, type)
    \/ \E data \in MessageData : ServiceWorkerMessage(data)
    \/ ServiceWorkerMessageError

ListenerSpec == ListenerInit /\ [][ListenerNext]_vars

\* ==================================================================== claims
\* The list requests are resolved against, in either environment.
CurrentList == IF env = "node" THEN currentHandlers ELSE contextRequestHandlers

Bypassed(req) == HeadersGet(req.headers, "x-msw-bypass") # ""

\* Which handler's parse and predicate accept which request.
Acceptance == [h \in Handlers, req \in Requests |-> predicate(h, req, parse(h, req))]

Accepts(h, req) == Acceptance[h, req]

IsFirstEligible(list, skip, req, h) ==
    \E i \in 1..Len(list) :
        /\ list[i] = h
        /\ ~skip[h]
        /\ Accepts(h, req)
        /\ \A j \in 1..(i - 1) : skip[list[j]] \/ ~Accepts(list[j], req)

NoneEligible(list, skip, req) ==
    \A i \in 1..Len(list) : skip[list[i]] \/ ~Accepts(list[i], req)

StartStep(req) == Listen(req) \/ WorkerRequest(req)

SettleStep(t, result) == ListenResume(t, result) \/ WorkerResume(t, result)

MutationStep ==
    \/ \E handlers \in UseArguments :
          SetupServerUse(handlers) \/ SetupWorkerUse(handlers)
    \/ SetupServerRestoreHandlers \/ SetupWorkerRestoreHandlers
    \/ \E nextHandlers \in ResetArguments :
          SetupServerResetHandlers(nextHandlers) \/ SetupWorkerResetHandlers(nextHandlers)

\* C1: one resolution invokes the resolver of exactly one handler when some
\* handler of the current list matches the request and of none otherwise; the
\* invoked handler is the first one in list order that is not consumed and whose
\* parse and predicate accept the request, and whatever its resolver ends in
\* (a response, nothing, a throw) no further resolver is invoked for that request.
C1_FirstMatchingHandlerOnly ==
    [][ (inflight' # inflight \/ last'.op = "request") =>
        /\ \A req \in Requests :
              (StartStep(req) /\ ~Bypassed(req)) =>
                 \/ /\ NoneEligible(CurrentList, shouldSkip, req)
                    /\ inflight' = inflight
                    /\ last'.result = "unmatched"
                    /\ last'.invoked = <<>>
                 \/ \E h \in Handlers :
                       /\ IsFirstEligible(CurrentList, shouldSkip, req, h)
                       /\ inflight' = inflight (+)
                              SetToBag({Task("resolving", req, h, <<h>>, NoResponse)})
        /\ \A t \in BagToSet(inflight), result \in ResolverResults :
              SettleStep(t, result) =>
                 \/ /\ inflight' = inflight (-) SetToBag({t})
                    /\ last'.req = t.req
                    /\ last'.selected = t.handler
                    /\ last'.invoked = <<t.handler>>
                 \/ \E u \in BagToSet(inflight') :
                       /\ u.req = t.req
                       /\ u.handler = t.handler
                       /\ u.invoked = <<t.handler>>
                       /\ u.pc = result
        /\ \A t \in BagToSet(inflight') : t.invoked = <<t.handler>>
        /\ last'.op = "request" =>
              last'.invoked = IF last'.selected = NoHandler THEN <<>>
                              ELSE <<last'.selected>>
      ]_vars

\* C1 witness: the first handler of the list is consumed, so the request went
\* to the second one, whose resolver returned nothing; no other resolver ran.
C1_Witness ==
    /\ last.op = "request"
    /\ last.result = "nothing"
    /\ last.selected = "h2"
    /\ last.invoked = <<"h2">>
    /\ Len(CurrentList) >= 2
    /\ CurrentList[1] = "h1"
    /\ CurrentList[2] = "h2"
    /\ shouldSkip["h1"]

RestoreStep == SetupServerRestoreHandlers \/ SetupWorkerRestoreHandlers

\* Resolutions a step has added to the suspended ones.
Started == BagToSet(inflight' (-) inflight)

\* C2: once a one-shot handler has answered a request with a response it is
\* consumed: no request started while it is consumed is given to it (the request
\* goes to the next eligible handler or to none), and only restoreHandlers or
\* resetHandlers makes it eligible again; restoreHandlers makes every handler of
\* the current list eligible and leaves the list's order and membership as they were.
C2_OneShotUntilRestored ==
    [][ /\ \A t \in BagToSet(inflight) :
              (SettleStep(t, "response") /\ HandlerDecl(t.handler).once) =>
                 shouldSkip'[t.handler]
        /\ \A u \in Started : u.pc = "resolving" => ~shouldSkip[u.handler]
        /\ \A h \in Handlers :
              (shouldSkip[h] /\ ~shouldSkip'[h]) =>
                 last'.op \in {"restoreHandlers", "resetHandlers"}
        /\ RestoreStep =>
              /\ CurrentList' = CurrentList
              /\ \A h \in Range(CurrentList') : ~shouldSkip'[h]
              /\ \A req \in Requests :
                    (\E i \in 1..Len(CurrentList') : Accepts(CurrentList'[i], req)) =>
                       \E i \in 1..Len(CurrentList') :
                          /\ IsFirstEligible(CurrentList', shouldSkip', req, CurrentList'[i])
                          /\ \A j \in 1..(i - 1) : ~Accepts(CurrentList'[j], req)
      ]_vars

\* C2 witness: the one-shot handler is the whole list and is consumed, and the
\* next identical request ended with no matching handler.
C2_Witness ==
    /\ CurrentList = <<"h1">>
    /\ shouldSkip["h1"]
    /\ served["h1"] = 1
    /\ last.op = "request"
    /\ last.req = Request("GET", <<"user">>, FALSE)
    /\ last.result = "unmatched"

\* C3: of the resolutions that selected the same one-shot handler before any of
\* them finished, at most one returns that handler's response (between two
\* clearings of its flag the handler produces one response at most); a resolution
\* that finishes after the handler was consumed returns no response and no
\* matched handler.
C3_OneResponsePerConsumption ==
    /\ \A h \in Handlers : served[h] <= 1
    /\ \A h \in Handlers : (HandlerDecl(h).once /\ served[h] = 1) => shouldSkip[h]
    /\ (last.op = "request" /\ last.result = "raced") =>
          /\ last.response = NoResponse
          /\ last.handler = NoHandler
          /\ last.invoked = <<last.selected>>

\* C3 witness: a resolution that had selected the one-shot handler settled after
\* another one consumed it.
C3_Witness ==
    /\ last.op = "request"
    /\ last.result = "raced"
    /\ last.selected = "h1"
    /\ served["h1"] = 1
    /\ shouldSkip["h1"]

\* The request one more identical request would be given to.
NextSelection(list, skip, req) ==
    {h \in Handlers : IsFirstEligible(list, skip, req, h)}

\* C4: a one-shot handler becomes consumed only in the step in which its resolver
\* completes with a response; when the resolver throws (or returns nothing) the
\* flags are as before, so an identical request is given to the same handler again.
C4_FaultDoesNotConsume ==
    [][ (inflight' # inflight \/ shouldSkip' # shouldSkip) =>
        /\ \A t \in BagToSet(inflight) :
              (SettleStep(t, "throw") \/ SettleStep(t, "nothing")) =>
                 /\ shouldSkip' = shouldSkip
                 /\ NextSelection(CurrentList', shouldSkip', t.req) =
                       NextSelection(CurrentList, shouldSkip, t.req)
        /\ \A h \in Handlers :
              (~shouldSkip[h] /\ shouldSkip'[h]) =>
                 /\ HandlerDecl(h).once
                 /\ \E t \in BagToSet(inflight) :
                       /\ t.handler = h
                       /\ SettleStep(t, "response")
                       /\ \/ \E u \in Started : u.pc = "response" /\ u.handler = h
                          \/ last'.result = "response" /\ last'.handler = h
      ]_vars

\* C4 witness: the resolver of the one-shot handler threw, the request got the
\* error response, the handler is still eligible and an identical request that
\* came afterwards is suspended in its resolver.
C4_Witness ==
    /\ last.op = "request"
    /\ last.result = "throw"
    /\ last.selected = "h1"
    /\ ~shouldSkip["h1"]
    /\ served["h1"] = 0
    /\ CurrentList = <<"h1", "h2">>
    /\ \E t \in BagToSet(inflight) :
          t.pc = "resolving" /\ t.handler = "h1" /\ t.req = last.req

\* C5: after use(h1, ..., hn) the current list is h1, ..., hn followed by the
\* previous list in its previous order, in setupServer and setupWorker alike; so
\* for every request the first eligible handler among the added ones is selected
\* before any handler that was there already and before any later argument.
C5_UsePrepends ==
    last.op = "use" =>
       /\ CurrentList = last.args \o last.before
       /\ \A req \in Requests :
             \A i \in 1..Len(last.args) :
                (/\ ~shouldSkip[last.args[i]]
                 /\ Accepts(last.args[i], req)
                 /\ \A j \in 1..(i - 1) :
                       shouldSkip[last.args[j]] \/ ~Accepts(last.args[j], req)) =>
                   NextSelection(CurrentList, shouldSkip, req) = {last.args[i]}

\* C5 witness: use(h2, h1) on the list <<h1>>.
C5_Witness ==
    /\ last.op = "use"
    /\ last.args = <<"h2", "h1">>
    /\ last.before = <<"h1">>
    /\ CurrentList = <<"h2", "h1", "h1">>

\* C6: after resetHandlers(n1, ..., nk) with k > 0 the current list is exactly
\* n1, ..., nk; after resetHandlers() it is exactly the handlers the setup call
\* was given, in their order, whatever the list was before.
C6_ResetReplaces ==
    last.op = "resetHandlers" =>
       /\ Len(last.args) > 0 => CurrentList = last.args
       /\ Len(last.args) = 0 => CurrentList = declared
       /\ requestHandlers = declared

\* C6 witness: resetHandlers() on a list that use had grown and reordered.
C6_Witness ==
    /\ last.op = "resetHandlers"
    /\ last.args = <<>>
    /\ Len(last.before) = MaxList
    /\ last.before # declared
    /\ CurrentList = declared

\* No handler of the current list is consumed, and the handlers the last call
\* made eligible again are selected wherever they are the first to accept.
AllEligible ==
    /\ \A h \in Range(CurrentList) : ~shouldSkip[h] /\ served[h] = 0
    /\ \A h \in last.cleared \cap Range(CurrentList) :
          \A req \in Requests :
             IsFirstEligible(CurrentList, [k \in Handlers |-> FALSE], req, h) =>
                getResponseSelect(req, CurrentList, shouldSkip) = h

\* C7: right after any resetHandlers call no handler of the resulting list is
\* consumed; a one-shot handler that was consumed before the call and is in the
\* resulting list is selected again for every request it is the first to accept.
C7_ResetClearsConsumption ==
    [][ (last'.op = "resetHandlers" /\ last' # last) => AllEligible' ]_vars

\* C7 witness: resetHandlers() cleared the flag of the consumed one-shot handler
\* of the initial list, which is first in the list again.
C7_Witness ==
    /\ last.op = "resetHandlers"
    /\ last.args = <<>>
    /\ last.cleared = {"h1"}
    /\ CurrentList = <<"h1", "h2">>
    /\ NextSelection(CurrentList, shouldSkip, Request("GET", <<"user">>, FALSE)) = {"h1"}

\* The list a mutation call recorded in last must have produced.
ListAfter(event) ==
    CASE event.op = "use" -> event.args \o event.before
      [] event.op = "resetHandlers" ->
            IF Len(event.args) > 0 THEN event.args ELSE declared
      [] OTHER -> event.before

\* The one-shot flags after that call, from the flags before it.
FlagsAfter(event, skip) ==
    IF event.op \in {"restoreHandlers", "resetHandlers"}
    THEN [h \in Handlers |-> IF h \in Range(ListAfter(event)) THEN FALSE ELSE skip[h]]
    ELSE skip

\* C8: a resolution that starts right after use, restoreHandlers or resetHandlers
\* has returned selects its handler from the whole result of that call; a
\* mutation leaves the suspended resolutions as they are and consumes no handler,
\* and a suspended resolution whose resolver then returns a response gets the
\* response of the handler it had selected (unless that one-shot handler was
\* consumed meanwhile), even when the handler is no longer in the list; that
\* handler is the only one invoked for the request.
C8_MutationsDoNotReachBack ==
    [][ /\ MutationStep =>
              /\ inflight' = inflight
              /\ \A h \in Handlers : shouldSkip'[h] => shouldSkip[h]
              /\ CurrentList' = ListAfter(last')
              /\ shouldSkip' = FlagsAfter(last', shouldSkip)
        /\ (inflight' # inflight /\ last.op \in {"use", "restoreHandlers", "resetHandlers"}) =>
              \A u \in Started :
                 u.pc = "resolving" =>
                    u.handler = getResponseSelect(u.req, ListAfter(last), shouldSkip)
        /\ inflight' # inflight =>
              \A t \in BagToSet(inflight) :
                 SettleStep(t, "response") =>
                    \/ HandlerDecl(t.handler).once /\ shouldSkip[t.handler]
                    \/ /\ env = "node"
                       /\ inflight' = (inflight (-) SetToBag({t})) (+)
                             SetToBag({[Task("response", t.req, t.handler, <<t.handler>>,
                                             response(HandlerDecl(t.handler).transformers))
                                          EXCEPT !.timer = setTimeout(
                                             response(HandlerDecl(t.handler).transformers).delay)]})
                    \/ /\ env = "browser"
                       /\ last'.handler = t.handler
                       /\ last'.invoked = <<t.handler>>
                       /\ last'.response = response(HandlerDecl(t.handler).transformers)
      ]_vars

\* C8 witness: the request got the response of the handler it had selected,
\* although resetHandlers took that handler out of the list before the resolver
\* returned.
C8_Witness ==
    /\ last.op = "request"
    /\ last.result = "response"
    /\ last.handler = "h1"
    /\ last.invoked = <<"h1">>
    /\ last.response.body = [type |-> "text", value |-> "once-user"]
    /\ CurrentList = <<"h2">>

IsFaultResponse(res) ==
    /\ res # NoResponse
    /\ res.status = 500
    /\ res.body.type = "json"
    /\ res.body.errorType = ResolverError.name
    /\ res.body.message = ResolverError.message
    /\ "x-powered-by" \notin DOMAIN res.headers

\* C9: a request whose selected handler's resolver threw receives a response with
\* status 500 whose body holds the error's type name and message and which has no
\* x-powered-by header; the resolution ends with that response for the selected
\* handler, not with an unhandled request.
C9_FaultBecomes500 ==
    /\ (last.op = "request" /\ last.result = "throw") =>
          /\ IsFaultResponse(last.response)
          /\ last.handler = last.selected
          /\ last.invoked = <<last.selected>>
          /\ ~last.unhandled
    /\ \A t \in BagToSet(inflight) : t.pc = "throw" => IsFaultResponse(t.response)

\* C9 witness: the request for the user got the 500 response of the fault.
C9_Witness ==
    /\ last.op = "request"
    /\ last.result = "throw"
    /\ last.req = Request("GET", <<"user">>, FALSE)
    /\ last.response.status = 500
    /\ last.response.body.errorType = "ReferenceError"

\* C10: the step in which a resolver throws leaves the current list, the initial
\* handlers and every one-shot flag as they were, leaves every other suspended
\* resolution as it was, and changes neither what any of them will end in nor
\* which handler a request started afterwards is given to.
C10_FaultIsContained ==
    [][ inflight' # inflight =>
        \A t \in BagToSet(inflight) :
           SettleStep(t, "throw") =>
              /\ CurrentList' = CurrentList
              /\ requestHandlers' = requestHandlers
              /\ shouldSkip' = shouldSkip
              /\ served' = served
              /\ LET others == inflight (-) SetToBag({t})
                 IN  \/ inflight' = others
                     \/ \E f \in BagToSet(inflight') :
                           /\ f.pc = "throw"
                           /\ f.req = t.req
                           /\ f.handler = t.handler
                           /\ inflight' = others (+) SetToBag({f})
              /\ \A u \in BagToSet(inflight (-) SetToBag({t})) :
                    \A result \in ResolverResults :
                       getResponseSettle(u.handler, result, shouldSkip') =
                          getResponseSettle(u.handler, result, shouldSkip)
              /\ \A req \in Requests :
                    getResponseSelect(req, CurrentList', shouldSkip') =
                       getResponseSelect(req, CurrentList, shouldSkip)
      ]_vars

\* C10 witness: one request got the 500 response of a fault while another
\* resolution, started before the fault, holds the response of its handler.
C10_Witness ==
    /\ last.op = "request"
    /\ last.result = "throw"
    /\ \E u \in BagToSet(inflight) :
          /\ u.pc = "response"
          /\ u.handler = last.selected
          /\ u.response = response(HandlerDecl(u.handler).transformers)
    /\ CurrentList = declared

\* C11: a request whose matching handler's resolver returned nothing gets no
\* mocked response and the unhandled-request policy is not applied to it, in
\* setupServer and setupWorker alike; its outcome still names the handler, which
\* tells it from a request no handler matched.
C11_EmptyResolverCountsAsHandled ==
    (last.op = "request" /\ last.result = "nothing") =>
       /\ last.response = NoResponse
       /\ last.handler = last.selected
       /\ last.handler # NoHandler
       /\ ~last.unhandled

\* C12: a request that no handler of the current list is eligible for starts no
\* resolver, ends at once with no response, no handler and no status or body,
\* and the unhandled-request policy is applied to it in that one step; nothing
\* of the request stays behind that could apply the policy again.
C12_UnmatchedGoesToPolicyOnce ==
    [][ \A req \in Requests :
           (/\ ~Bypassed(req)
            /\ NoneEligible(CurrentList, shouldSkip, req)
            /\ StartStep(req)) =>
              /\ inflight' = inflight
              /\ shouldSkip' = shouldSkip
              /\ last' = RequestEvent(req, NoHandler, <<>>, NoHandler, NoResponse,
                                      TRUE, "unmatched")
      ]_vars

\* C12 witness: the request for /docs, which no declared handler accepts, ended
\* unmatched while another resolution was suspended.
C12_Witness ==
    /\ last.op = "request"
    /\ last.result = "unmatched"
    /\ last.req = Request("GET", <<"docs">>, FALSE)
    /\ last.invoked = <<>>
    /\ last.response = NoResponse
    /\ last.unhandled
    /\ inflight # EmptyBag
    /\ \A t \in BagToSet(inflight) : t.req # last.req

\* ------------------------------------------------- claims about response(...)
\* The descriptor response(...) starts from.
InitialDescriptor ==
    [status |-> 200, statusText |-> "OK", body |-> [type |-> "null"], delay |-> 0,
     headers |-> ("x-powered-by" :> "msw")]

Front(seq) == SubSeq(seq, 1, Len(seq) - 1)

\* tn(...t2(t1(d))...)
RECURSIVE Nested(_, _)
Nested(transformers, d) ==
    IF transformers = <<>> THEN d
    ELSE ApplyTransformer(Nested(Front(transformers), d),
                          transformers[Len(transformers)])

\* A response(...) call has built its descriptor, wholly or up to some argument.
Composing == call.pc \in {"piping", "returned"}

\* C13: the descriptor response(t1, ..., tn) builds is tn(...t2(t1(d))...) for
\* the default descriptor d, after each argument and at the return, and the
\* shared defaultResponse object is the same before and after every call.
C13_PipeInArgumentOrder ==
    /\ objects["defaultResponse"] = defaultResponse
    /\ Composing =>
          /\ Deref(call.target) = Nested(call.transformers, InitialDescriptor)
          /\ response(call.transformers) = Nested(call.transformers, InitialDescriptor)

\* C13 witness: response(status(403), json(Maverick, merge), status(301, text))
\* has returned the status of its last argument and the body of its second.
C13_Witness ==
    /\ call.pc = "returned"
    /\ call.transformers = <<[type |-> "status", code |-> 403, text |-> ""],
                             [type |-> "json", value |-> Maverick, merge |-> TRUE],
                             [type |-> "status", code |-> 301, text |-> "Custom text"]>>
    /\ Deref(call.target).status = 301
    /\ Deref(call.target).statusText = "Custom text"
    /\ Deref(call.target).body = [type |-> "json-text", tokens |-> stringify(Maverick)]

\* C14: response() without transformers returns status 200, statusText OK, a
\* null body, delay 0 and the header x-powered-by: msw and no other header,
\* whatever calls came before; its Headers object and its descriptor are not
\* those of a result returned earlier, so a header set on that result is not in it.
C14_DefaultDescriptor ==
    /\ (call.pc = "returned" /\ call.transformers = <<>>) =>
          /\ Deref(call.target) = InitialDescriptor
          /\ DOMAIN Deref(call.target).headers = {"x-powered-by"}
    /\ (Composing /\ kept # NoRef) =>
          /\ call.target # kept
          /\ objects[call.target].headers # objects[kept].headers

\* C14 witness: response() has returned while its caller holds an earlier
\* result of response() on which it has set the header x-token.
C14_Witness ==
    /\ call.pc = "returned"
    /\ call.transformers = <<>>
    /\ kept # NoRef
    /\ "x-token" \in DOMAIN Deref(kept).headers
    /\ "x-token" \notin DOMAIN Deref(call.target).headers

\* C15: composing [A, B, C] gives what C gives when applied to the composition
\* of [A, B]; so does every composition with its last transformer split off.
C15_ComposeAssociates ==
    (Composing /\ Len(call.transformers) >= 1) =>
       /\ response(call.transformers) =
             ApplyTransformer(response(Front(call.transformers)),
                              call.transformers[Len(call.transformers)])
       /\ Deref(call.target) =
             ApplyTransformer(response(Front(call.transformers)),
                              call.transformers[Len(call.transformers)])

\* C15 witness: response(delay(100), status(403), status(301, text)) returned.
C15_Witness ==
    /\ call.pc = "returned"
    /\ call.transformers = <<[type |-> "delay", ms |-> 100],
                             [type |-> "status", code |-> 403, text |-> ""],
                             [type |-> "status", code |-> 301, text |-> "Custom text"]>>
    /\ Deref(call.target).status = 301
    /\ Deref(call.target).delay = 100

\* m holds the keys of both values; a key both hold with an object is merged in
\* the same way, any other key of the later value has the later value's entry,
\* and a key only the earlier value has keeps its entry.
RECURSIVE IsDeepMergeOf(_, _, _)
IsDeepMergeOf(m, later, earlier) ==
    /\ m.t = "obj"
    /\ Keys(m) = Keys(later) \cup Keys(earlier)
    /\ Len(m.entries) = Cardinality(Keys(m))
    /\ \A k \in Keys(m) :
          IF k \in Keys(later) /\ k \in Keys(earlier)
          THEN IF ValueAt(later, k).t = "obj" /\ ValueAt(earlier, k).t = "obj"
               THEN IsDeepMergeOf(ValueAt(m, k), ValueAt(later, k), ValueAt(earlier, k))
               ELSE ValueAt(m, k) = ValueAt(later, k)
          ELSE IF k \in Keys(later)
               THEN ValueAt(m, k) = ValueAt(later, k)
               ELSE ValueAt(m, k) = ValueAt(earlier, k)

\* C16: after json(a, ...) and json(b, {merge: true}) the body is the JSON text
\* of the deep merge of a and b (keys of both, objects merged key by key, arrays
\* and scalars of b in the place of a's); after json(a, ...) and json(b) it is
\* the JSON text of b alone. The content type is application/json either way.
C16_JsonMerge ==
    (/\ Composing
     /\ Len(call.transformers) = 2
     /\ call.transformers[1].type = "json"
     /\ call.transformers[2].type = "json") =>
       LET a == call.transformers[1].value
           b == call.transformers[2].value
           body == Deref(call.target).body
       IN  /\ body.type = "json-text"
           /\ \E v \in JsonUniverse : stringify(v) = body.tokens
           /\ Deref(call.target).headers["content-type"] = "application/json"
           /\ IF call.transformers[2].merge
              THEN IsDeepMergeOf(jsonParse(body), b, a)
              ELSE jsonParse(body) = b /\ body.tokens = stringify(b)

\* C16 witness: json(John, merge) then json(Jack, merge): the address holds the
\* street of the first and the house number of the second.
C16_Witness ==
    /\ call.pc = "returned"
    /\ call.transformers = <<[type |-> "json", value |-> John, merge |-> TRUE],
                             [type |-> "json", value |-> Jack, merge |-> TRUE]>>
    /\ LET merged == jsonParse(Deref(call.target).body)
       IN  /\ Keys(ValueAt(merged, "address")) = {"street", "houseNumber"}
           /\ ValueAt(ValueAt(merged, "address"), "houseNumber") = JNum(7)
           /\ ValueAt(merged, "firstName") = JStr("Jack")
           /\ ValueAt(merged, "tags") = JArr(<<JNum(3)>>)

\* The position of the last transformer of a kind in the arguments, 0 if none.
LastOf(transformers, kinds) ==
    LET found == {i \in 1..Len(transformers) : transformers[i].type \in kinds}
    IN  IF found = {} THEN 0 ELSE CHOOSE i \in found : \A j \in found : j <= i

LastSetOf(transformers, name) ==
    LET found == {i \in 1..Len(transformers) :
                     /\ transformers[i].type = "set"
                     /\ toLowerCase(transformers[i].name) = name}
    IN  IF found = {} THEN 0 ELSE CHOOSE i \in found : \A j \in found : j <= i

\* C17: the status and status text of a composition are those of its last status
\* transformer (the standard text of the code when none is given), its delay is
\* that of its last delay transformer and no sum, a header has the value of the
\* last set for its name, and the body is that of the last body transformer (or
\* of the last json transformer without merge mode) when none follows it.
C17_LastApplicationWins ==
    Composing =>
       LET ts == call.transformers
           d == Deref(call.target)
           s == LastOf(ts, {"status"})
           w == LastOf(ts, {"delay"})
           b == LastOf(ts, {"body", "json"})
           h == LastSetOf(ts, "x-token")
       IN  /\ IF s = 0 THEN d.status = 200 /\ d.statusText = "OK"
              ELSE /\ d.status = ts[s].code
                   /\ ts[s].text # "" => d.statusText = ts[s].text
                   /\ ts[s].text = "" => d.statusText = statuses(ts[s].code)
                   /\ (ts[s].text = "" /\ ts[s].code = 403) => d.statusText = "Forbidden"
           /\ d.delay = IF w = 0 THEN 0 ELSE ts[w].ms
           /\ IF h = 0 THEN "x-token" \notin DOMAIN d.headers
              ELSE d.headers["x-token"] = ts[h].value
           /\ b = 0 => d.body = [type |-> "null"]
           /\ (b > 0 /\ ts[b].type = "body") => d.body = ts[b].value
           /\ (b > 0 /\ ts[b].type = "json" /\ ~ts[b].merge) =>
                 d.body = [type |-> "json-text", tokens |-> stringify(ts[b].value)]

\* C17 witness: response(delay(100), delay(50), status(403)) returned with a
\* delay of 50 and the standard text of 403.
C17_Witness ==
    /\ call.pc = "returned"
    /\ call.transformers = <<[type |-> "delay", ms |-> 100],
                             [type |-> "delay", ms |-> 50],
                             [type |-> "status", code |-> 403, text |-> ""]>>
    /\ Deref(call.target).delay = 50
    /\ Deref(call.target).statusText = "Forbidden"

\* ------------------------------------------------ claims about one handler
\* Two spellings of one HTTP method, whatever the case of their letters.
MethodSpellings == {{"GET", "get"}, {"POST", "Post", "post"}, {"DELETE", "delete"}}

SameMethod(a, b) == \E spellings \in MethodSpellings : a \in spellings /\ b \in spellings

Decided(h) == probe.pc = "decided" /\ probe.handler = h

\* C18: a REST handler's predicate is true exactly when the method of the request
\* is the handler's method, the case of the letters aside, and the URL of the
\* request matches the handler's mask; with a matching URL and another method, or
\* the handler's method and a URL that does not match, the predicate is false.
C18_RestPredicate ==
    \A h \in RestHandlers :
        Decided(h) =>
            LET sameMethod == SameMethod(HandlerDecl(h).method, probe.req.method)
                urlMatches == matchRequestUrl(probe.req.url, HandlerDecl(h).mask).matches
            IN  /\ probe.matches = (sameMethod /\ urlMatches)
                /\ urlMatches /\ ~sameMethod => ~probe.matches
                /\ sameMethod /\ ~urlMatches => ~probe.matches

\* C18 witness: rest.get('/user/:id') accepted a request whose method is spelled
\* get, for /user/42.
C18_Witness ==
    /\ Decided("getUserById")
    /\ probe.req.method = "get"
    /\ probe.req.url = <<"user", "42">>
    /\ probe.matches

\* The operation texts a request carries: in its query parameter, in the query
\* field of its body, or in the operations field of a multipart body.
RequestDocuments(req) ==
    (IF "query" \in DOMAIN req.searchParams THEN {req.searchParams["query"]} ELSE {})
      \cup (IF "query" \in DOMAIN req.body THEN {req.body.query} ELSE {})
      \cup (IF "operations" \in DOMAIN req.body
            THEN LET operations == jsonParseOrEmpty(req.body.operations)
                 IN  IF "query" \in Keys(operations)
                     THEN {ValueAt(operations, "query").s} ELSE {}
            ELSE {})

\* The name satisfies the name selector of the handler.
Selects(h, name) ==
    LET selector == GraphQLDecl(h).expectedOperationName
    IN  IF "regexp" \in DOMAIN selector THEN RegExpTest(selector.regexp, name)
        ELSE selector.string = name

TypedHandlers == {h \in GraphQLHandlers : GraphQLDecl(h).expectedOperationType # "all"}

\* The named operations of the given type a document holds.
NamesOf(doc, type) ==
    LET definitions == graphql_parse(doc).definitions
    IN  {definitions[i].name.value :
            i \in {j \in 1..Len(definitions) :
                      /\ definitions[j].kind = "OperationDefinition"
                      /\ definitions[j].operation = type
                      /\ definitions[j].name # Undefined}}

\* C19: a GraphQL handler declared for queries or for mutations matches a request
\* only if the document of the request holds an operation of that type whose
\* name the handler's selector accepts and the URL of the request matches the
\* handler's mask; it never matches a document whose only operation of the
\* selected name is of the other type, nor one that names no operation the
\* selector accepts.
C19_TypedHandlerMatches ==
    \A h \in TypedHandlers :
        Decided(h) /\ probe.matches =>
            /\ matchRequestUrl(probe.req.url, GraphQLDecl(h).mask).matches
            /\ \E doc \in RequestDocuments(probe.req) :
                  \E name \in NamesOf(doc, GraphQLDecl(h).expectedOperationType) :
                      Selects(h, name)

\* C19 witness: graphql.mutation('Login') accepted a document whose first
\* operation is the query GetUser and whose second is the mutation Login.
C19_Witness ==
    /\ Decided("mutationLogin")
    /\ RequestDocuments(probe.req) = {DocTwoOperations}
    /\ probe.matches

\* The request carries one operation, and that operation has no name.
Anonymous(req) ==
    \E doc \in {DocAnonymous, DocAnonymousMutation} : RequestDocuments(req) = {doc}

UniversalHandlers ==
    {h \in GraphQLHandlers : GraphQLDecl(h).expectedOperationName = [regexp |-> ".*"]}

\* C20: an operation without a name matches the handlers of graphql.operation,
\* whose name selector accepts every name, when the URL matches their mask, and
\* matches no handler declared with an operation name.
C20_AnonymousMatchesUniversal ==
    \A h \in GraphQLHandlers :
        Decided(h) /\ probe.req.method \in {"GET", "POST"} /\ Anonymous(probe.req) =>
            probe.matches = (/\ h \in UniversalHandlers
                             /\ matchRequestUrl(probe.req.url, GraphQLDecl(h).mask).matches)

\* ------------------------------------- claims about GraphQL request parsing
BothParsed == probe.pc = "sent" /\ probe.get # NotParsed /\ probe.post # NotParsed

\* C21: the GET request carrying an operation in its query and variables
\* parameters and the POST request carrying it in a JSON body are parsed to the
\* same operation type, operation name and variables, also when the operation
\* has no variables.
C21_TransportsParseAlike ==
    BothParsed => probe.get = probe.post

\* The value a path of keys leads to in a JSON value, if it leads anywhere.
RECURSIVE Lookup(_, _)
Lookup(v, path) ==
    IF path = <<>> THEN v
    ELSE IF v # Undefined /\ v.t = "obj" /\ Head(path) \in Keys(v)
    THEN Lookup(ValueAt(v, Head(path)), Tail(path))
    ELSE Undefined

IsObject(v) == v # Undefined /\ v.t = "obj"

\* The paths of keys of a JSON value that lead to something.
RECURSIVE PathsOf(_)
PathsOf(v) ==
    IF ~IsObject(v) THEN {<<>>}
    ELSE {<<>>} \cup UNION {{<<k>> \o path : path \in PathsOf(ValueAt(v, k))} : k \in Keys(v)}

IsPrefix(p, q) == Len(p) <= Len(q) /\ SubSeq(q, 1, Len(p)) = p

\* A multipart request whose operations field holds a document that parses.
Multipart(req) ==
    /\ "operations" \in DOMAIN req.body
    /\ "query" \notin DOMAIN req.body
    /\ req.method = "POST"
    /\ \E doc \in RequestDocuments(req) : graphql_parse(doc).ok

\* The tree the dot paths of a map are walked in: { variables }.
UploadTree(req) ==
    LET operations == jsonParseOrEmpty(req.body.operations)
    IN  IF "variables" \in Keys(operations)
        THEN JObj(<<Entry("variables", ValueAt(operations, "variables"))>>)
        ELSE JObj(<<>>)

\* The upload fields the map names and, for each, the paths it lists.
UploadMapOf(req) ==
    IF "map" \in DOMAIN req.body THEN jsonParseOrEmpty(req.body.map) ELSE JObj(<<>>)

UploadFields(req) == Keys(UploadMapOf(req))

UploadPaths(req, field) ==
    LET paths == ValueAt(UploadMapOf(req), field).items
    IN  {split(paths[i].s) : i \in 1..Len(paths)}

\* The map names a field the body lacks, or a path with a step before its last
\* that is no object of the tree.
MapFails(req) ==
    \E field \in UploadFields(req) :
        \/ field \notin DOMAIN req.body.files
        \/ \E path \in UploadPaths(req, field) :
              \E n \in 0..(Len(path) - 1) :
                  ~IsObject(Lookup(UploadTree(req), SubSeq(path, 1, n)))

\* C22: parse of a multipart POST returns nothing when the map names an upload
\* field the body lacks or a dot path with a step before its last that is no
\* object of the variables tree; otherwise the variables it returns hold the
\* uploaded file at every listed path and are unchanged everywhere else.
C22_MultipartVariables ==
    \A h \in GraphQLHandlers :
        /\ probe.handler = h
        /\ probe.pc \in {"parsed", "decided"}
        /\ Multipart(probe.req)
        => IF MapFails(probe.req)
           THEN probe.parsedRequest = Null
           ELSE /\ probe.parsedRequest # Null
                /\ LET before == IF Keys(UploadTree(probe.req)) = {}
                                 THEN JObj(<<Entry("variables", JObj(<<>>))>>)
                                 ELSE UploadTree(probe.req)
                       after == JObj(<<Entry("variables", probe.parsedRequest.variables)>>)
                       listed == UNION {UploadPaths(probe.req, field) :
                                           field \in UploadFields(probe.req)}
                   IN  /\ \A field \in UploadFields(probe.req) :
                             \A path \in UploadPaths(probe.req, field) :
                                 Lookup(after, path) = probe.req.body.files[field]
                       /\ \A path \in PathsOf(before) :
                             (\A l \in listed : ~IsPrefix(path, l) /\ ~IsPrefix(l, path))
                                => Lookup(after, path) = Lookup(before, path)

\* The request carries no operation text, or none that is a GraphQL document.
Malformed(req) ==
    \A doc \in RequestDocuments(req) : ~graphql_parse(doc).ok

\* C23: for a GraphQL request whose operation text is no GraphQL document, or
\* that has no query or operations field, parse returns nothing and raises
\* nothing, and the handler does not match.
C23_MalformedIsNoMatch ==
    \A h \in GraphQLHandlers :
        /\ probe.handler = h
        /\ probe.pc \in {"parsed", "threw", "decided"}
        /\ Malformed(probe.req)
        => /\ probe.pc # "threw"
           /\ probe.parsedRequest = Null
           /\ ~probe.matches

\* ------------------------------------------------ claims about URL masks
EndsInWildcard(mask) == Len(mask) > 0 /\ mask[Len(mask)] = "*"

Answered(h) == probe.handler = h /\ probe.pc \in {"decided", "published"}

\* C24: for a mask of literal segments and named parameters, the resolver of a
\* matching request receives params that map each parameter name to the segment
\* of the URL at its place (mask /user/:id, URL /user/42: id is 42); a URL with
\* more segments than the mask does not match unless the mask ends in a
\* wildcard; and the match is the same whatever query string the URL has.
C24_PathParameters ==
    \A h \in RestHandlers :
        Answered(h) =>
            LET mask == HandlerDecl(h).mask
                url == probe.req.url
            IN  /\ Len(url) > Len(mask) /\ ~EndsInWildcard(mask) => ~probe.matches
                /\ probe.pc = "published" =>
                      probe.publicRequest.params =
                          {<<ParamName(mask[i]), url[i]>> :
                              i \in {j \in 1..Len(mask) : IsParam(mask[j])}}
                /\ \A other \in RestProbeRequests :
                      other.method = probe.req.method /\ other.url = url
                         => HandlerPredicate(h, other, HandlerParse(h, other)) = probe.matches

\* C24 witness: the resolver of rest.get('/user/:id') was given id 42 for the
\* request GET /user/42?page=2.
C24_Witness ==
    /\ probe.handler = "getUserById"
    /\ probe.pc = "published"
    /\ probe.req.url = <<"user", "42">>
    /\ "page" \in DOMAIN probe.req.searchParams
    /\ probe.publicRequest.params = {<<"id", "42">>}

\* C30: a REST handler whose mask holds a query string matches as if the mask
\* had none, and the warning about the query parameters of its mask is printed
\* once for the handler, however many requests it matched.
C30_DiagnosedOnce ==
    /\ Answered("getUserPaged") =>
          probe.matches = (/\ SameMethod("GET", probe.req.method)
                           /\ probe.req.url = <<"user">>)
    /\ probe.warnings <= 1

\* ------------------------------------------------ claims about the setup call
HasArray(args) == \E i \in 1..Len(args) : args[i] \in ArrayArguments

NothingCreated ==
    /\ last.constructed = {}
    /\ requestHandlers = <<>>
    /\ currentHandlers = <<>>
    /\ contextRequestHandlers = <<>>
    /\ inflight = EmptyBag

\* C25: a setupServer or setupWorker call with an array among its arguments
\* throws at the call: it returns no API object, has created no handler list and
\* constructed no interceptor, and no step follows it, so that no request is
\* resolved against the declaration.
C25_ArrayArgumentThrows ==
    [][ /\ last'.op = "setup" => ~HasArray(last'.args)
        /\ (last'.op = "threw" /\ HasArray(last'.args)) =>
              last'.result = "array" /\ NothingCreated'
        /\ ~(last.op = "threw" /\ HasArray(last.args)) ]_vars

\* C25 witness: setupServer(h1, [h2]) threw for the array that is its second
\* argument.
C25_Witness ==
    /\ last.op = "threw"
    /\ last.call = "setupServer"
    /\ last.args = <<"h1", "[h2]">>
    /\ last.result = "array"

\* ---------------------------------------------------------------- claim C28
\* The suspended resolutions whose response waits for a timer.
Timed == {t \in BagToSet(inflight) : t.timer # NoTimer}

\* This step handed a mocked response to the interceptor.
HandsOver ==
    /\ env = "node"
    /\ last'.op = "request"
    /\ last'.response # NoResponse
    /\ last' # last \/ \E t \in Timed : inflight' = inflight (-) SetToBag({t})

\* C28: in setupServer a mocked response reaches the interceptor only in the
\* step in which the timer started for it fires, and that step takes the
\* response out of the suspended resolutions, so that it is handed over once; a
\* resolution that got a response waits for a timer of the delay of that
\* response, zero when it has no delay; and every such timer can fire, and
\* every resolver can settle, whatever the other requests are waiting for.
C28_TimerDelivery ==
    /\ [][ /\ HandsOver =>
                \E t \in Timed :
                   /\ inflight' = inflight (-) SetToBag({t})
                   /\ last'.req = t.req
                   /\ last'.response = MockedInterceptedResponse(t.response)
           /\ \A t \in Timed :
                 CopiesIn(t, inflight') < CopiesIn(t, inflight) =>
                    /\ inflight' = inflight (-) SetToBag({t})
                    /\ last'.op = "request"
                    /\ last'.req = t.req
                    /\ last'.response = MockedInterceptedResponse(t.response)
           /\ \A u \in Started :
                 u.response # NoResponse =>
                    /\ env = "node"
                    /\ u.timer = setTimeout(u.response.delay)
                    /\ \E t \in Suspended("resolving") :
                          /\ inflight' = (inflight (-) SetToBag({t})) (+) SetToBag({u})
                          /\ u.req = t.req
                    /\ UNCHANGED last
      ]_vars
    /\ [](env = "node" =>
            /\ \A t \in Timed : ENABLED TimerFires(t)
            /\ \A t \in Suspended("resolving"), result \in ResolverResults :
                  ENABLED ListenResume(t, result))

\* C28 witness: the response of h1, which has no delay, has been handed to the
\* interceptor while the response of h2 to another request still waits for its
\* timer of 100 milliseconds.
C28_Witness ==
    /\ env = "node"
    /\ last.op = "request"
    /\ last.handler = "h1"
    /\ last.response = MockedInterceptedResponse(response(HandlerDecl("h1").transformers))
    /\ \E t \in Timed : t.handler = "h2" /\ t.timer = setTimeout(100)

\* ---------------------------------------------------------------- claim C29
\* This step is a call of removeAllListeners.
RemovesAll == last'.op = "removeAllListeners" /\ last' # last

\* What a target holds of the entries of a list.
HeldOf(list, held) ==
    {l \in Range(list) : [event |-> l.event, callback |-> l.callback] \in held[l.target]}

\* C29 as the claim has it: removeAllListeners called on the context of one
\* setupWorker instance leaves every listener attached that a callback of
\* another instance was added with.
C29_RegistryPerInstance ==
    [][ RemovesAll =>
           \A target \in EventTargets :
              \A e \in attached[target] :
                 e.callback.owner # last'.args[1] => e \in attached'[target]
      ]_vars

\* C29: the list of listeners belongs to the module and to no context:
\* removeAllListeners called on the context of any setupWorker instance takes
\* every listener of the list off its target, whichever instance added it,
\* leaves the list empty and leaves no target with a listener it did not hold
\* before.
C29_RegistryIsModuleWide ==
    [][ RemovesAll =>
           /\ listeners' = <<>>
           /\ HeldOf(listeners, attached') = {}
           /\ \A target \in EventTargets : attached'[target] \subseteq attached[target]
           /\ \A target \in EventTargets :
                 \A e \in attached[target] \ attached'[target] :
                    Listener(e.event, target, e.callback) \in Range(listeners)
      ]_vars

\* C29 witness: removeAllListeners on the context of w1 took the listener off
\* the window that w2 had added, and emptied the list.
C29_Witness ==
    /\ last.op = "removeAllListeners"
    /\ last.args = <<"w1">>
    /\ Listener("message", "window", Callback("w2", "callback")) \in Range(last.before)
    /\ attached["window"] = {}
    /\ listeners = <<>>

\* ---------------------------------------------------------------- claim C33
\* This step belongs to the resolution of a request: an intercepted request, a
\* resolver that settled, or a timer that fired.
ResolutionStep ==
    \/ inflight' # inflight
    \/ last' # last /\ last'.op = "request"

\* The resolutions that left their resolver in this step.
Settling == {t \in BagToSet(inflight) :
                t.pc = "resolving" /\ CopiesIn(t, inflight') < CopiesIn(t, inflight)}

\* C33: a step of the resolution of a request leaves the current list, the
\* initial list and the declared handlers as they are, in membership and in
\* order; of the consumed flags it can only set one, that of the handler the
\* resolution had selected, and it clears none.
C33_ResolutionKeepsLists ==
    [][ ResolutionStep =>
           /\ currentHandlers' = currentHandlers
           /\ contextRequestHandlers' = contextRequestHandlers
           /\ requestHandlers' = requestHandlers
           /\ declared' = declared
           /\ aliased' = aliased
           /\ \A h \in Handlers :
                 shouldSkip'[h] # shouldSkip[h] =>
                    /\ shouldSkip'[h]
                    /\ Cardinality(Settling) = 1
                    /\ \A t \in Settling : t.handler = h
      ]_vars

\* C33 witness: a request has been answered by h1, which is consumed now, and
\* the current list still holds h1 before h2 as declared.
C33_Witness ==
    /\ last.op = "request"
    /\ last.handler = "h1"
    /\ last.response # NoResponse
    /\ shouldSkip["h1"]
    /\ ~shouldSkip["h2"]
    /\ CurrentList = <<"h1", "h2">>
    /\ requestHandlers = <<"h1", "h2">>

\* ---------------------------------------------------------------- claim C34
\* C34: the array of handlers the setup call received always holds the declared
\* handlers in their order, whatever use, restoreHandlers and resetHandlers
\* calls were made, and every resetHandlers() without arguments leaves the
\* current list equal to the declared handlers.
C34_InitialHandlersKept ==
    /\ [](requestHandlers = declared)
    /\ [][ (last'.op = "resetHandlers" /\ last'.args = <<>> /\ last' # last)
              => CurrentList' = declared ]_vars

\* C34 witness: resetHandlers() was called on a list of three handlers that
\* use had built, and the current list is the declared one again.
C34_Witness ==
    /\ last.op = "resetHandlers"
    /\ last.args = <<>>
    /\ Len(last.before) = 3
    /\ CurrentList = declared
    /\ requestHandlers = declared

\* ---------------------------------------------------------------- claim C36
\* C36: in setupServer no resolution is ever under way for a request that
\* carries the x-msw-bypass header, and the step that intercepts such a request
\* invokes no handler, changes no one-shot flag and no suspended resolution,
\* returns no mocked response and does not go to the unhandled-request policy.
C36_BypassIsNotResolved ==
    /\ [](env = "node" => \A t \in BagToSet(inflight) : ~Bypassed(t.req))
    /\ [][ (env = "node" /\ last' # last /\ last'.op = "request" /\ Bypassed(last'.req)) =>
              /\ last'.result = "bypassed"
              /\ last'.selected = NoHandler
              /\ last'.invoked = <<>>
              /\ last'.response = NoResponse
              /\ ~last'.unhandled
              /\ shouldSkip' = shouldSkip
              /\ served' = served
              /\ inflight' = inflight
       ]_vars

\* C36 witness: setupServer let a request with the bypass header through while
\* h1, first in the list and not consumed, accepts that request.
C36_Witness ==
    /\ env = "node"
    /\ last.op = "request"
    /\ last.result = "bypassed"
    /\ Bypassed(last.req)
    /\ CurrentList[1] = "h1"
    /\ ~shouldSkip["h1"]
    /\ Accepts("h1", last.req)

\* ---------------------------------------------------------------- claim C37
\* The request names no operation text at the place its method has for it.
NoOperationField(req) ==
    \/ req.method \notin {"GET", "POST"}
    \/ req.method = "GET" /\ "query" \notin DOMAIN req.searchParams
    \/ /\ req.method = "POST"
       /\ "query" \notin DOMAIN req.body
       /\ "operations" \notin DOMAIN req.body

\* C37: a GraphQL handler put to a request whose method is neither GET nor
\* POST, to a GET request with no query parameter or to a POST request whose
\* body has neither a query nor an operations field parses it to nothing,
\* without raising, and does not match it.
C37_NoOperationIsNoMatch ==
    \A h \in GraphQLHandlers :
        /\ probe.handler = h
        /\ probe.pc \notin {"idle", "intercepted"}
        /\ NoOperationField(probe.req)
        => /\ probe.pc \in {"parsed", "decided"}
           /\ probe.parsedRequest = Null
           /\ ~probe.matches

\* C37 witness: graphql.operation under the link of /graphql has decided on a
\* PUT request to /graphql that carries a query text.
C37_Witness ==
    /\ probe.handler = "linkOperation"
    /\ probe.pc = "decided"
    /\ probe.req.method = "PUT"
    /\ probe.req.url = <<"graphql">>
    /\ probe.parsedRequest = Null
    /\ ~probe.matches

\* ---------------------------------------------------------------- claim C32
\* The handlers made through graphql.link('/graphql').
LinkHandlers == {"linkQueryGetUser", "linkOperation"}

\* The URL of the request lies in the scope the handler was made for.
InScope(h, url) == h \in LinkHandlers => url = <<"graphql">>

\* parse found an operation with a name in the request.
ParsedNamed ==
    /\ probe.parsedRequest # Null
    /\ probe.parsedRequest.operationName # Undefined

\* C32: a GraphQL handler matches a request exactly when parse found a named
\* operation its name selector accepts and the URL lies in its scope: the URL of
\* the link for a handler of graphql.link(uri), any URL for the handlers of
\* graphql.query, graphql.mutation and graphql.operation; and the handlers of
\* graphql.operation match every named operation in their scope, of any type.
C32_LinkScopesMatching ==
    \A h \in GraphQLHandlers :
        Decided(h) =>
            /\ probe.matches =
                  (/\ ParsedNamed
                   /\ Selects(h, probe.parsedRequest.operationName.value)
                   /\ InScope(h, probe.req.url))
            /\ (h \in UniversalHandlers /\ ParsedNamed /\ InScope(h, probe.req.url))
                  => probe.matches

\* C32 witness: the query handler for GetUser of the link to /graphql has
\* turned down the query GetUser sent to /api.
C32_Witness ==
    /\ Decided("linkQueryGetUser")
    /\ probe.req.url = <<"api">>
    /\ ParsedNamed
    /\ probe.parsedRequest.operationName = Some("GetUser")
    /\ ~probe.matches

\* ---------------------------------------------------------------- claim C35
\* C35: the public request a matching handler gives its resolver has every
\* field of the request descriptor with the descriptor's value, and besides
\* them the params of the URL match for a REST handler and the variables for a
\* GraphQL handler, which are the mapping parse found or the empty mapping when
\* parse found none; the step that builds it leaves the request descriptor as
\* it was, without params and without variables.
C35_PublicRequestIsCopy ==
    [][ (probe.pc = "decided" /\ probe'.pc = "published") =>
           /\ probe'.req = probe.req
           /\ DOMAIN probe'.req \cap {"params", "variables"} = {}
           /\ \A f \in DOMAIN probe.req : probe'.publicRequest[f] = probe.req[f]
           /\ IF probe.handler \in GraphQLHandlers
              THEN /\ IsObject(probe'.publicRequest.variables)
                   /\ probe'.publicRequest.variables =
                         IF probe.parsedRequest.variables = Undefined
                         THEN JObj(<<>>)
                         ELSE probe.parsedRequest.variables
              ELSE probe'.publicRequest.params =
                      matchRequestUrl(probe.req.url, HandlerDecl(probe.handler).mask).params
      ]_vars

\* C35 witness: the query handler for GetUser gave its resolver a public
\* request with empty variables for a POST request that carried a query and
\* no variables, and the request descriptor has no variables.
C35_Witness ==
    /\ probe.pc = "published"
    /\ probe.handler = "queryGetUser"
    /\ probe.req.method = "POST"
    /\ "variables" \notin DOMAIN probe.req.body
    /\ probe.parsedRequest.variables = Undefined
    /\ probe.publicRequest.variables = JObj(<<>>)
    /\ "variables" \notin DOMAIN probe.req

\* ---------------------------------------------------------------- claim C38
\* This step delivers a 'message' event carrying the data to the listeners of
\* navigator.serviceWorker.
MessageDelivered(data) ==
    /\ last'.op = "message"
    /\ last'.args = <<data>>
    /\ last' # last \/ promises' # promises

\* This step delivers a 'messageerror' event.
MessageErrorDelivered ==
    /\ last'.op = "messageerror"
    /\ last' # last \/ promises' # promises

\* The i-th listener of the p-th once() call is held by its target.
Listening(p, i) == IsAttached(OnceListeners(promises[p].owner, p)[i])

\* C38: a settled promise of once(type) never changes; a pending one whose
\* listeners are attached stays as it is on every message of another type,
\* resolves with the message on a message of the awaited type, is rejected on a
\* message whose data is not valid JSON and on a 'messageerror' event; and it
\* changes in no other step.
C38_OnceSettlesOnAwaitedType ==
    [][ \A p \in DOMAIN promises :
           /\ promises[p].state # "pending" => promises'[p] = promises[p]
           /\ promises[p].state = "pending" =>
                 /\ \A type \in MessageTypes :
                       MessageDelivered(Serialized(type)) =>
                          IF type = promises[p].type /\ Listening(p, 1)
                          THEN /\ promises'[p].state = "resolved"
                               /\ promises'[p].value =
                                     Some([type |-> type, data |-> Serialized(type)])
                          ELSE promises'[p] = promises[p]
                 /\ \A data \in MessageData \ {Serialized(type) : type \in MessageTypes} :
                       MessageDelivered(data) /\ Listening(p, 1) =>
                          promises'[p].state = "rejected"
                 /\ MessageErrorDelivered /\ Listening(p, 2) =>
                       promises'[p].state = "rejected"
                 /\ promises'[p] # promises[p] =>
                       \/ MessageErrorDelivered
                       \/ \E data \in MessageData : MessageDelivered(data)
      ]_vars

\* C38 witness: the promise of once("MOCKING_ENABLED") has resolved with the
\* message of that type that was just delivered.
C38_Witness ==
    /\ last.op = "message"
    /\ last.args = <<Serialized("MOCKING_ENABLED")>>
    /\ \E p \in DOMAIN promises :
          /\ promises[p].type = "MOCKING_ENABLED"
          /\ promises[p].state = "resolved"
          /\ promises[p].value.value.type = "MOCKING_ENABLED"

\* ---------------------------------------------------------------- claim C39
\* C39: neither listener of a settled promise of once is held by its target,
\* and every removeAllListeners leaves the list empty and every target without
\* a listener.
C39_SettledOnceIsDetached ==
    /\ [](\A p \in DOMAIN promises :
             promises[p].state # "pending" => ~Listening(p, 1) /\ ~Listening(p, 2))
    /\ [][ RemovesAll =>
              /\ listeners' = <<>>
              /\ \A target \in EventTargets : attached'[target] = {}
         ]_vars

\* C39 witness: a promise of once has settled; its two listeners are still
\* entries of the list and are off their target, while a listener added
\* through addListener is still held.
C39_Witness ==
    \E p \in DOMAIN promises :
       /\ promises[p].state # "pending"
       /\ \A i \in 1..2 :
             /\ OnceListeners(promises[p].owner, p)[i] \in Range(listeners)
             /\ ~Listening(p, i)
       /\ \E l \in Range(listeners) : l.callback.promise = 0 /\ IsAttached(l)

====
